---- MODULE Spec2Model ----
(***************************************************************************)
(* Model of the opentransport client (package opentransport): client       *)
(* configuration and construction, request building and validation, the    *)
(* retrying transport executor Client.Do / Client.retry, the queries of    *)
(* the three services with their path builders, searches and response     *)
(* decoders, and the isoDate codec.                                        *)
(*                                                                         *)
(* Strings that the code inspects character by character (URLs, request    *)
(* paths) are sequences of one-character strings; strings that the code    *)
(* only compares or tests for emptiness (user agent, error texts, HTTP     *)
(* method) are TLA+ strings.  A nil []byte and an empty []byte are both    *)
(* the empty sequence: the code only ever takes len() of a result.         *)
(***************************************************************************)
EXTENDS Integers, Sequences, FiniteSets, TLC

VARIABLES
    client,     \* the live *Client: Nil, or its cfg and logger outputs
    ret,        \* error returned by the last constructor / MaxRetry / NewRequest call ("" = nil)
    req,        \* the *http.Request last built (by Client.NewRequest or by the caller), or Nil
    pc,         \* position of the current Client.Do call
    pause,      \* Do's local `pause` (seconds), read from cfg.maxRetryPause
    attempts,   \* retry's parameter `attempts`
    fres,       \* what the last f() returned: [r |-> body, err |-> text]
    out,        \* what Do returned: [r |-> body, err |-> text, n |-> count printed in the error]
    exchanges,  \* number of httpClient.Do exchanges made by the current Do call
    pauses,     \* number of time.Sleep pauses taken by the current Do call
    last,       \* outcome of the last exchange of the current Do call
    slept,      \* seconds the current Do call has spent in time.Sleep
    cancelledAt,\* -1, or the number of exchanges the current Do call had made when the
                \* caller's context was cancelled (0 if it was cancelled before the call)
    svc,        \* the service whose query called Do: "" when Do is called directly
    parsed,     \* what the query's parseResponse returned: [res |-> result or Nil, err |-> text]
    result,     \* what the query returned: [res |-> result or Nil, err |-> text]
    emitted,    \* log records written to an observable output by the last step
    isoSource,  \* the time.Time whose encoding is being decoded, or Nil
    isoRaw,     \* the bytes handed to isoDate.UnmarshalJSON
    isoValue,   \* the isoDate that receives the decoded value
    isoErr,     \* the error of the last codec call ("" = nil)
    isoPc,      \* position of the codec: "new", "wire" or "decoded"
    convIn,     \* the arguments of a convListParam call: [values, name], or Nil
    convOut,    \* what that call returned: [s |-> text, err |-> text]
    mpc,        \* position of a MaxRetry call that runs beside a Do call
    margs,      \* the arguments of that MaxRetry call: <<attempts, pause>>
    policies    \* the retry policies that such MaxRetry calls have set

vars == <<client, ret, req, pc, pause, attempts, fres, out, exchanges, pauses, last, slept,
          cancelledAt, svc, parsed, result, emitted, isoSource, isoRaw, isoValue, isoErr, isoPc,
          convIn, convOut, mpc, margs, policies>>

\* the variables of the client and of its calls
program == <<client, ret, req, pc, pause, attempts, fres, out, exchanges, pauses, last, slept,
             cancelledAt, svc, parsed, result, emitted>>

\* the variables of one decode of a timestamp field
codec == <<isoSource, isoRaw, isoValue, isoErr, isoPc>>

\* the variables of one convListParam call
conv == <<convIn, convOut>>

\* the variables of a MaxRetry call that runs beside a Do call
race == <<mpc, margs, policies>>

\* what the operations of a client used from one goroutine leave alone
aside == <<codec, conv, race>>

\* the variables of a running query and of its Do call
frame == <<pc, pause, attempts, fres, out, exchanges, pauses, last, slept, cancelledAt, svc,
           parsed, result>>

\* A pointer (or interface value) is a sequence: empty when nil, else of length one
\* holding the value pointed to.
Nil == << >>
Ptr(x) == << x >>
Deref(p) == p[1]

-----------------------------------------------------------------------------
(* Program constants *)

DefaultApiURL ==
    << "h","t","t","p","s",":","/","/",
       "t","r","a","n","s","p","o","r","t",".","o","p","e","n","d","a","t","a",".","c","h",
       "/","v","1","/" >>
DefaultUserAgent == "Golang OpenTransport Client/v1.0"
DefaultMaxRetry == 3
DefaultRetryPause == 5
RetryLimit == 10
MinRetryPause == 1
StatusOK == 200
StatusInternalServerError == 500

\* What net/http puts on the wire when a request carries no User-Agent header.
GoDefaultUserAgent == "Go-http-client/1.1"

-----------------------------------------------------------------------------
(* Bounds of the model *)

MaxAttemptsInput == 11   \* the largest attempts value handed to MaxRetry and to a config
MaxPauseInput == 1       \* pauses are drawn from 0..MaxPauseInput
MaxBody == 1             \* response bodies have 0..MaxBody bytes
MaxList == 3             \* lists handed to convListParam have 0..MaxList elements

-----------------------------------------------------------------------------
(* Character classes and string helpers (package strings) *)

Letters == { "a","b","c","d","e","f","g","h","i","j","k","l","m",
             "n","o","p","q","r","s","t","u","v","w","x","y","z" }
Digits == { "0","1","2","3","4","5","6","7","8","9" }

\* strings.Index(s, c) for a single character, 1-based; 0 when absent
Index(s, c) ==
    IF \E i \in 1..Len(s) : s[i] = c
    THEN CHOOSE i \in 1..Len(s) : s[i] = c /\ \A j \in 1..(i-1) : s[j] # c
    ELSE 0

Drop(s, n) == SubSeq(s, n + 1, Len(s))
Take(s, n) == SubSeq(s, 1, n)

HasPrefix(s, p) == Len(s) >= Len(p) /\ Take(s, Len(p)) = p
HasSuffix(s, p) == Len(s) >= Len(p) /\ Drop(s, Len(s) - Len(p)) = p

\* strings.LastIndex(s, c), 1-based; 0 when absent
LastIndex(s, c) ==
    IF \E i \in 1..Len(s) : s[i] = c
    THEN CHOOSE i \in 1..Len(s) : s[i] = c /\ \A j \in (i+1)..Len(s) : s[j] # c
    ELSE 0

\* number of occurrences of c in s
Count(s, c) == Cardinality({ i \in 1..Len(s) : s[i] = c })

-----------------------------------------------------------------------------
(* net/url as the client uses it: url.Parse, URL.String.  Inputs are        *)
(* restricted to lower-case letters, digits, the characters . + - : / ? and, *)
(* after the first '?', the characters of a query (no '@', '[', '#', and no  *)
(* '%' before the query), so escaping is the identity and there is neither   *)
(* userinfo nor fragment.  A control byte makes url.Parse fail.              *)

NoURL == [ Scheme |-> <<>>, Opaque |-> <<>>, Host |-> <<>>, Path |-> <<>>,
           ForceQuery |-> FALSE, RawQuery |-> <<>> ]

\* url.getScheme, scanning from position i
RECURSIVE getSchemeAt(_, _)
getSchemeAt(rawURL, i) ==
    IF i > Len(rawURL)
    THEN [ scheme |-> <<>>, rest |-> rawURL, err |-> "" ]
    ELSE LET c == rawURL[i] IN
         IF c \in Letters
         THEN getSchemeAt(rawURL, i + 1)
         ELSE IF c \in Digits \cup { "+", "-", "." }
         THEN IF i = 1
              THEN [ scheme |-> <<>>, rest |-> rawURL, err |-> "" ]
              ELSE getSchemeAt(rawURL, i + 1)
         ELSE IF c = ":"
         THEN IF i = 1
              THEN [ scheme |-> <<>>, rest |-> <<>>, err |-> "missing protocol scheme" ]
              ELSE [ scheme |-> Take(rawURL, i - 1), rest |-> Drop(rawURL, i), err |-> "" ]
         ELSE [ scheme |-> <<>>, rest |-> rawURL, err |-> "" ]

getScheme(rawURL) == getSchemeAt(rawURL, 1)

\* url.validOptionalPort
validOptionalPort(port) ==
    \/ port = <<>>
    \/ /\ port[1] = ":"
       /\ \A i \in 2..Len(port) : port[i] \in Digits

\* url.parseHost (no IPv6 literal): the host is kept whole, its port is validated
parseHostOk(host) ==
    LET i == LastIndex(host, ":") IN
    i = 0 \/ validOptionalPort(Drop(host, i - 1))

\* the bytes below 0x20 that inputs hold
ControlBytes == { "\t" }

\* url.stringContainsCTLByte
stringContainsCTLByte(s) == \E i \in 1..Len(s) : s[i] \in ControlBytes

\* url.Parse: [url |-> URL, err |-> text]
Parse(rawURL) ==
    LET gs == getScheme(rawURL)
        q  == Index(gs.rest, "?")
        force == q # 0 /\ q = Len(gs.rest) /\ Count(gs.rest, "?") = 1
        rest0 == IF q = 0 THEN gs.rest ELSE Take(gs.rest, q - 1)
        query == IF q = 0 \/ force THEN <<>> ELSE Drop(gs.rest, q)
        slash == Index(rest0, "/")
        segment == IF slash = 0 THEN rest0 ELSE Take(rest0, slash - 1)
        hasAuthority == /\ HasPrefix(rest0, <<"/", "/">>)
                        /\ (gs.scheme # <<>> \/ ~HasPrefix(rest0, <<"/", "/", "/">>))
        auth0 == Drop(rest0, 2)
        cut == Index(auth0, "/")
        authority == IF cut = 0 THEN auth0 ELSE Take(auth0, cut - 1)
        rest1 == IF cut = 0 THEN <<>> ELSE Drop(auth0, cut - 1)
    IN
    IF stringContainsCTLByte(rawURL)
    THEN [ url |-> NoURL, err |-> "net/url: invalid control character in URL" ]
    ELSE IF gs.err # ""
    THEN [ url |-> NoURL, err |-> gs.err ]
    ELSE IF ~HasPrefix(rest0, <<"/">>) /\ gs.scheme # <<>>
    THEN [ url |-> [ NoURL EXCEPT !.Scheme = gs.scheme, !.Opaque = rest0,
                                  !.ForceQuery = force, !.RawQuery = query ],
           err |-> "" ]
    ELSE IF ~HasPrefix(rest0, <<"/">>) /\ Index(segment, ":") # 0
    THEN [ url |-> NoURL, err |-> "first path segment in URL cannot contain colon" ]
    ELSE IF hasAuthority
    THEN IF ~parseHostOk(authority)
         THEN [ url |-> NoURL, err |-> "invalid port after host" ]
         ELSE [ url |-> [ NoURL EXCEPT !.Scheme = gs.scheme, !.Host = authority,
                                       !.Path = rest1,
                                       !.ForceQuery = force, !.RawQuery = query ],
                err |-> "" ]
    ELSE [ url |-> [ NoURL EXCEPT !.Scheme = gs.scheme, !.Path = rest0,
                                  !.ForceQuery = force, !.RawQuery = query ],
           err |-> "" ]

\* URL.String (fmt's %s of a *url.URL) of a URL with a non-empty host, which is
\* what a live client's apiUrl is: scheme ":" "//" host path "?" query
String(u) ==
    LET scheme == IF u.Scheme # <<>> THEN u.Scheme \o <<":">> ELSE <<>>
        sep == IF u.Path # <<>> /\ u.Path[1] # "/" THEN <<"/">> ELSE <<>>
        query == IF u.ForceQuery \/ u.RawQuery # <<>> THEN <<"?">> \o u.RawQuery ELSE <<>>
    IN
    IF u.Opaque # <<>>
    THEN scheme \o u.Opaque \o query
    ELSE scheme \o <<"/", "/">> \o u.Host \o sep \o u.Path \o query

-----------------------------------------------------------------------------
(* Client configuration: validRetry, validClientConfig *)

\* validRetry without the lower bound of attempts
validRetry_noLowerBound(a, p) ==
    IF a > RetryLimit
    THEN "please provide a max retry between 0 and 10"
    ELSE IF p < MinRetryPause
    THEN "please provide a max retry pause more than 1 seconds"
    ELSE ""

\* validRetry: the error text, "" when the pair is accepted
validRetry(a, p) ==
    IF a < 0 \/ a > RetryLimit
    THEN "please provide a max retry between 0 and 10"
    ELSE IF p < MinRetryPause
    THEN "please provide a max retry pause more than 1 seconds"
    ELSE ""

\* validClientConfig without the default for an empty user agent
validClientConfig_noDefaultAgent(cfg) ==
    IF cfg = Nil
    THEN [ cfg |-> Nil, err |-> "client config cannot be nil" ]
    ELSE LET c == Deref(cfg) IN
         IF c.apiUrl = Nil
         THEN [ cfg |-> Nil, err |-> "please provide a api url" ]
         ELSE IF Deref(c.apiUrl).Host = <<>>
         THEN [ cfg |-> Nil, err |-> "please provide a valid api url host" ]
         ELSE IF Deref(c.apiUrl).Scheme = <<>>
         THEN [ cfg |-> Nil, err |-> "please provide a valid api url scheme" ]
         ELSE IF validRetry(c.maxRetry, c.maxRetryPause) # ""
         THEN [ cfg |-> Nil, err |-> validRetry(c.maxRetry, c.maxRetryPause) ]
         ELSE [ cfg |-> Ptr(c), err |-> "" ]

\* validClientConfig without the test of the URL scheme
validClientConfig_noSchemeCheck(cfg) ==
    IF cfg = Nil
    THEN [ cfg |-> Nil, err |-> "client config cannot be nil" ]
    ELSE LET c == IF Deref(cfg).userAgent = ""
                  THEN [ Deref(cfg) EXCEPT !.userAgent = DefaultUserAgent ]
                  ELSE Deref(cfg)
         IN
         IF c.apiUrl = Nil
         THEN [ cfg |-> Nil, err |-> "please provide a api url" ]
         ELSE IF Deref(c.apiUrl).Host = <<>>
         THEN [ cfg |-> Nil, err |-> "please provide a valid api url host" ]
         ELSE IF validRetry(c.maxRetry, c.maxRetryPause) # ""
         THEN [ cfg |-> Nil, err |-> validRetry(c.maxRetry, c.maxRetryPause) ]
         ELSE [ cfg |-> Ptr(c), err |-> "" ]

\* validClientConfig: [cfg |-> the validated config or Nil, err |-> text]
validClientConfig(cfg) ==
    IF cfg = Nil
    THEN [ cfg |-> Nil, err |-> "client config cannot be nil" ]
    ELSE LET c == IF Deref(cfg).userAgent = ""
                  THEN [ Deref(cfg) EXCEPT !.userAgent = DefaultUserAgent ]
                  ELSE Deref(cfg)
         IN
         IF c.apiUrl = Nil
         THEN [ cfg |-> Nil, err |-> "please provide a api url" ]
         ELSE IF Deref(c.apiUrl).Host = <<>>
         THEN [ cfg |-> Nil, err |-> "please provide a valid api url host" ]
         ELSE IF Deref(c.apiUrl).Scheme = <<>>
         THEN [ cfg |-> Nil, err |-> "please provide a valid api url scheme" ]
         ELSE IF validRetry(c.maxRetry, c.maxRetryPause) # ""
         THEN [ cfg |-> Nil, err |-> validRetry(c.maxRetry, c.maxRetryPause) ]
         ELSE [ cfg |-> Ptr(c), err |-> "" ]

\* newClientWithConfig without the normalisation of the URL path
buildClient_keepsPath(cfg) ==
    LET v == validClientConfig(cfg) IN
    IF v.err # ""
    THEN [ client |-> Nil, err |-> "opentransport: invalid client config: " \o v.err ]
    ELSE [ client |-> Ptr([ cfg   |-> Deref(v.cfg),
                            debug |-> "Discard",
                            error |-> "Discard" ]),
           err |-> "" ]

\* newClientWithConfig as a function: [client |-> the new client or Nil, err |-> text]
buildClient(cfg) ==
    LET v == validClientConfig(cfg) IN
    IF v.err # ""
    THEN [ client |-> Nil, err |-> "opentransport: invalid client config: " \o v.err ]
    ELSE LET u == Deref(Deref(v.cfg).apiUrl)
             norm == IF HasSuffix(u.Path, <<"/">>) THEN u
                     ELSE [ u EXCEPT !.Path = u.Path \o <<"/">> ]
         IN [ client |-> Ptr([ cfg   |-> [ Deref(v.cfg) EXCEPT !.apiUrl = Ptr(norm) ],
                               debug |-> "Discard",
                               error |-> "Discard" ]),
              err |-> "" ]

\* log.Logger.Printf on a logger that writes whatever its sink is
Printf_ignoresSink(sink) == 1

\* log.Logger.Printf on a sink: the number of records that reach an observable output
Printf(sink) == IF sink = "Discard" THEN 0 ELSE 1

-----------------------------------------------------------------------------
(* Requests: net/http's NewRequestWithContext as Client.NewRequest and the  *)
(* tests use it, and validRequest                                           *)

\* http.removeEmptyPort
removeEmptyPort(host) ==
    IF LastIndex(host, ":") # 0 /\ host[Len(host)] = ":"
    THEN Take(host, Len(host) - 1)
    ELSE host

\* http.NewRequestWithContext(ctx, method, url, body) with a valid method:
\* [req |-> the request or Nil, err |-> text].  No header is set.
httpNewRequest(ctx, method, rawURL, hasBody) ==
    LET p == Parse(rawURL) IN
    IF ctx = Nil
    THEN [ req |-> Nil, err |-> "net/http: nil Context" ]
    ELSE IF p.err # ""
    THEN [ req |-> Nil, err |-> p.err ]
    ELSE [ req |-> Ptr([ Method    |-> method,
                         Body      |-> hasBody,
                         URL       |-> [ p.url EXCEPT !.Host = removeEmptyPort(p.url.Host) ],
                         Host      |-> removeEmptyPort(p.url.Host),
                         UserAgent |-> "",
                         ctx       |-> Deref(ctx) ]),
           err |-> "" ]

\* validRequest without the test of the body
validRequest_noBodyCheck(r) ==
    IF r.Method # "GET"
    THEN "the request has an invalid http method"
    ELSE IF r.URL.Scheme = <<>>
    THEN "a valid protocol scheme should be defined"
    ELSE IF r.Host = <<>>
    THEN "a valid host should be defined"
    ELSE ""

\* validRequest without the test of the host
validRequest_noHostCheck(r) ==
    IF r.Method # "GET"
    THEN "the request has an invalid http method"
    ELSE IF r.Body
    THEN "the request should not contain a body"
    ELSE IF r.URL.Scheme = <<>>
    THEN "a valid protocol scheme should be defined"
    ELSE ""

\* validRequest: the error text, "" when the request is accepted
validRequest(r) ==
    IF r.Method # "GET"
    THEN "the request has an invalid http method"
    ELSE IF r.Body
    THEN "the request should not contain a body"
    ELSE IF r.URL.Scheme = <<>>
    THEN "a valid protocol scheme should be defined"
    ELSE IF r.Host = <<>>
    THEN "a valid host should be defined"
    ELSE ""

\* The User-Agent a request carries on the wire: net/http's transport supplies
\* its own identifier when the request header has none.
WireUserAgent(r) == IF r.UserAgent = "" THEN GoDefaultUserAgent ELSE r.UserAgent

-----------------------------------------------------------------------------
(* encoding/json as the decoders use it: json.Unmarshal of a response body   *)
(* into a result type.  Documents are made of objects, arrays, strings       *)
(* without escapes, unsigned integers, the three literals and spaces.        *)

\* a decoded JSON value: t is its kind, v its content (the characters of a string,
\* number or literal, the elements of an array, the members [k, x] of an object)
JsonValue(t, v) == [ t |-> t, v |-> v ]
JsonNull == JsonValue("null", <<>>)

\* the outcome of scanning a value that starts at position i
JsonOk(val, next) == [ ok |-> TRUE, val |-> val, next |-> next, err |-> "" ]
JsonSyntaxError(s, i) ==
    [ ok |-> FALSE, val |-> JsonNull, next |-> i,
      err |-> IF i > Len(s) THEN "unexpected end of JSON input" ELSE "invalid character" ]

\* the position of the first character at or after i that is not a space
RECURSIVE skipSpace(_, _)
skipSpace(s, i) == IF i <= Len(s) /\ s[i] = " " THEN skipSpace(s, i + 1) ELSE i

\* the position after the run of digits that starts at i
RECURSIVE digitsEnd(_, _)
digitsEnd(s, i) == IF i <= Len(s) /\ s[i] \in Digits THEN digitsEnd(s, i + 1) ELSE i

\* a string literal whose opening quote is at i
scanString(s, i) ==
    IF \E j \in (i + 1)..Len(s) : s[j] = "\""
    THEN LET j == CHOOSE j \in (i + 1)..Len(s) :
                     s[j] = "\"" /\ \A k \in (i + 1)..(j - 1) : s[k] # "\""
         IN JsonOk(JsonValue("str", SubSeq(s, i + 1, j - 1)), j + 1)
    ELSE JsonSyntaxError(s, Len(s) + 1)

\* one of the literals null, true, false at i
scanLiteral(s, i, word, t) ==
    IF \A k \in 1..Len(word) : i + k - 1 <= Len(s) /\ s[i + k - 1] = word[k]
    THEN JsonOk(JsonValue(t, word), i + Len(word))
    ELSE JsonSyntaxError(s, i - 1 + CHOOSE k \in 1..Len(word) :
                                  /\ i + k - 1 > Len(s) \/ s[i + k - 1] # word[k]
                                  /\ \A h \in 1..(k - 1) : s[i + h - 1] = word[h])

RECURSIVE scanValue(_, _), scanElements(_, _, _), scanMembers(_, _, _)

\* the value that starts at i
scanValue(s, i) ==
    IF i > Len(s) THEN JsonSyntaxError(s, i)
    ELSE IF s[i] = "{" THEN scanMembers(s, skipSpace(s, i + 1), <<>>)
    ELSE IF s[i] = "[" THEN scanElements(s, skipSpace(s, i + 1), <<>>)
    ELSE IF s[i] = "\"" THEN scanString(s, i)
    ELSE IF s[i] \in Digits
    THEN JsonOk(JsonValue("num", SubSeq(s, i, digitsEnd(s, i) - 1)), digitsEnd(s, i))
    ELSE IF s[i] = "n" THEN scanLiteral(s, i, <<"n","u","l","l">>, "null")
    ELSE IF s[i] = "t" THEN scanLiteral(s, i, <<"t","r","u","e">>, "bool")
    ELSE IF s[i] = "f" THEN scanLiteral(s, i, <<"f","a","l","s","e">>, "bool")
    ELSE JsonSyntaxError(s, i)

\* an array after its element x, the elements acc before it: at j there is ',' or ']'
afterElement(s, acc, x, j) ==
    IF ~x.ok THEN x
    ELSE IF j > Len(s) THEN JsonSyntaxError(s, j)
    ELSE IF s[j] = "," THEN scanElements(s, skipSpace(s, j + 1), Append(acc, x.val))
    ELSE IF s[j] = "]" THEN JsonOk(JsonValue("arr", Append(acc, x.val)), j + 1)
    ELSE JsonSyntaxError(s, j)

\* scanElements with the element that starts at i scanned
scanElement(s, acc, x) == afterElement(s, acc, x, skipSpace(s, x.next))

\* the elements of an array from i on, after the elements acc
scanElements(s, i, acc) ==
    IF i > Len(s) THEN JsonSyntaxError(s, i)
    ELSE IF acc = <<>> /\ s[i] = "]" THEN JsonOk(JsonValue("arr", acc), i + 1)
    ELSE scanElement(s, acc, scanValue(s, i))

\* an object after its member k: x, the members acc before it: at j there is ',' or '}'
afterMember(s, acc, k, x, j) ==
    IF ~x.ok THEN x
    ELSE IF j > Len(s) THEN JsonSyntaxError(s, j)
    ELSE IF s[j] = ","
    THEN scanMembers(s, skipSpace(s, j + 1), Append(acc, [ k |-> k.val.v, x |-> x.val ]))
    ELSE IF s[j] = "}"
    THEN JsonOk(JsonValue("obj", Append(acc, [ k |-> k.val.v, x |-> x.val ])), j + 1)
    ELSE JsonSyntaxError(s, j)

\* scanMembers with the value of the member k scanned
scanMember(s, acc, k, x) == afterMember(s, acc, k, x, skipSpace(s, x.next))

\* an object after the key k of a member: at c there is ':'
afterKey(s, acc, k, c) ==
    IF ~k.ok THEN k
    ELSE IF c > Len(s) \/ s[c] # ":" THEN JsonSyntaxError(s, c)
    ELSE scanMember(s, acc, k, scanValue(s, skipSpace(s, c + 1)))

\* scanMembers with the key that starts at i scanned
scanKey(s, acc, k) == afterKey(s, acc, k, skipSpace(s, k.next))

\* the members of an object from i on, after the members acc
scanMembers(s, i, acc) ==
    IF i > Len(s) THEN JsonSyntaxError(s, i)
    ELSE IF acc = <<>> /\ s[i] = "}" THEN JsonOk(JsonValue("obj", acc), i + 1)
    ELSE IF s[i] # "\"" THEN JsonSyntaxError(s, i)
    ELSE scanKey(s, acc, scanString(s, i))

\* the end of the document after its value x: only spaces may follow, up to e
afterDocument(raw, x, e) ==
    IF ~x.ok THEN x
    ELSE IF e <= Len(raw) THEN JsonSyntaxError(raw, e)
    ELSE x

\* scanDocument with the value of the document scanned
scannedDocument(raw, x) == afterDocument(raw, x, skipSpace(raw, x.next))

\* json's check of the whole document (checkValid) with the value it holds
scanDocument(raw) == scannedDocument(raw, scanValue(raw, skipSpace(raw, 1)))

\* the JSON key of the list a service's result type holds:
\* LocationResult.Stations, ConnectionResult.Connections, StationboardResult.Journeys
ListKey(service) ==
    IF service = "Location" THEN << "s","t","a","t","i","o","n","s" >>
    ELSE IF service = "Connection" THEN << "c","o","n","n","e","c","t","i","o","n","s" >>
    ELSE << "s","t","a","t","i","o","n","b","o","a","r","d" >>

\* the zero value of a result type
ZeroResult == [ list |-> <<>> ]

\* the last member of an object with key k, JsonNull when there is none
Member(obj, k) ==
    IF \E i \in 1..Len(obj.v) : obj.v[i].k = k
    THEN obj.v[CHOOSE i \in 1..Len(obj.v) :
                 obj.v[i].k = k /\ \A j \in (i + 1)..Len(obj.v) : obj.v[j].k # k].x
    ELSE JsonNull

\* the error of a JSON value that does not fit the Go value it is decoded into
UnmarshalTypeError == "json: cannot unmarshal into Go value"

\* the list member l of a document decoded into the list of a result: an element
\* that is an object is decoded, null leaves the element at its zero value, an
\* element of any other kind is a type error
decodeList(l) ==
    IF l.t = "null" THEN [ val |-> ZeroResult, err |-> "" ]
    ELSE IF l.t # "arr" THEN [ val |-> ZeroResult, err |-> UnmarshalTypeError ]
    ELSE [ val |-> [ list |-> [ i \in 1..Len(l.v) |->
                                  IF l.v[i].t = "obj" THEN l.v[i] ELSE JsonValue("obj", <<>>) ] ],
           err |-> IF \E i \in 1..Len(l.v) : l.v[i].t \notin { "obj", "null" }
                   THEN UnmarshalTypeError ELSE "" ]

\* the scanned document d decoded into the result type of a service: a syntax
\* error leaves the result at its zero value, null leaves it untouched, a value
\* that is not an object is a type error
decodeDocument(service, d) ==
    IF ~d.ok THEN [ val |-> ZeroResult, err |-> d.err ]
    ELSE IF d.val.t = "null" THEN [ val |-> ZeroResult, err |-> "" ]
    ELSE IF d.val.t # "obj" THEN [ val |-> ZeroResult, err |-> UnmarshalTypeError ]
    ELSE decodeList(Member(d.val, ListKey(service)))

\* json.Unmarshal(raw, &result) for the result type of a service:
\* [val |-> the result, err |-> text]
Unmarshal(service, raw) == decodeDocument(service, scanDocument(raw))

\* the error a decoder returns for a zero-length payload
EmptyPayload == "response buffer is empty"

\* XService.parseResponse after json.Unmarshal returned u:
\* [res |-> the result or Nil, err |-> text, logged |-> records written].
\* LocationService.parseResponse hands back the result and json's error as they
\* are; the other two wrap the error and return no result with it.
parsedResponse(service, u, debug) ==
    IF service = "Location"
    THEN [ res |-> Ptr(u.val), err |-> u.err, logged |-> Printf(debug) ]
    ELSE IF u.err # ""
    THEN [ res |-> Nil, err |-> "failed to parse response: " \o u.err, logged |-> 0 ]
    ELSE [ res |-> Ptr(u.val), err |-> "", logged |-> Printf(debug) ]

\* parseResponse that takes a zero-length payload for an empty result
parseResponse_acceptsEmpty(service, raw, debug) ==
    IF Len(raw) = 0
    THEN [ res |-> Ptr(ZeroResult), err |-> "", logged |-> 0 ]
    ELSE parsedResponse(service, Unmarshal(service, raw), debug)

\* XService.parseResponse(raw) on a client whose debug sink is `debug`
parseResponse(service, raw, debug) ==
    IF Len(raw) = 0
    THEN [ res |-> Nil, err |-> EmptyPayload, logged |-> 0 ]
    ELSE parsedResponse(service, Unmarshal(service, raw), debug)

-----------------------------------------------------------------------------
(* The isoDate codec: isoDate.UnmarshalJSON with the time.Parse it calls,    *)
(* and time.Time.MarshalJSON, which isoDate inherits from the embedded       *)
(* time.Time.  A time.Time is its wall clock reading in its own zone, the    *)
(* nanoseconds of the second and the zone's offset in seconds east of UTC.   *)

Time(y, mo, d, h, mi, s, ns, off) ==
    [ year |-> y, month |-> mo, day |-> d, hour |-> h, min |-> mi, sec |-> s,
      nsec |-> ns, offset |-> off ]

\* the zero value of time.Time: January 1, year 1, 00:00:00 UTC
ZeroTime == Time(1, 1, 1, 0, 0, 0, 0, 0)

DigitRow == << "0","1","2","3","4","5","6","7","8","9" >>
isDigit(c) == c \in Digits
digit(c) == (CHOOSE d \in 1..10 : DigitRow[d] = c) - 1

\* the value of a run of decimal digits
RECURSIVE atoi(_)
atoi(s) == IF s = << >> THEN 0 ELSE atoi(Take(s, Len(s) - 1)) * 10 + digit(s[Len(s)])

\* x >= 0 in decimal, zero-padded to width
RECURSIVE appendInt(_, _)
appendInt(x, width) ==
    IF x < 10 /\ width <= 1 THEN << DigitRow[x + 1] >>
    ELSE appendInt(x \div 10, width - 1) \o << DigitRow[(x % 10) + 1] >>

RECURSIVE pow10(_)
pow10(n) == IF n = 0 THEN 1 ELSE 10 * pow10(n - 1)

isLeap(year) == year % 4 = 0 /\ (year % 100 # 0 \/ year % 400 = 0)

daysIn(month, year) ==
    IF month = 2 THEN (IF isLeap(year) THEN 29 ELSE 28)
    ELSE IF month \in { 4, 6, 9, 11 } THEN 30 ELSE 31

RECURSIVE daysBefore(_, _)
daysBefore(month, year) ==
    IF month = 1 THEN 0 ELSE daysBefore(month - 1, year) + daysIn(month - 1, year)

\* days from January 1 of year 1 to the day of t
daysSinceEpoch(t) ==
    365 * (t.year - 1) + ((t.year - 1) \div 4) - ((t.year - 1) \div 100)
        + ((t.year - 1) \div 400) + daysBefore(t.month, t.year) + (t.day - 1)

\* second of the day in UTC, before it is brought into 0..86399
utcSeconds(t) == t.hour * 3600 + t.min * 60 + t.sec - t.offset

\* the instant of t, as Time.Equal compares it: UTC day, second of that day, nanosecond
Instant(t) ==
    << daysSinceEpoch(t) + (utcSeconds(t) \div 86400), utcSeconds(t) % 86400, t.nsec >>

\* strings.Contains(s, substr)
Contains(s, substr) ==
    \E i \in 1..(Len(s) - Len(substr) + 1) : SubSeq(s, i, i + Len(substr) - 1) = substr

RECURSIVE TrimLeft(_, _)
TrimLeft(s, c) == IF Len(s) > 0 /\ s[1] = c THEN TrimLeft(Drop(s, 1), c) ELSE s

RECURSIVE TrimRight(_, _)
TrimRight(s, c) ==
    IF Len(s) > 0 /\ s[Len(s)] = c THEN TrimRight(Take(s, Len(s) - 1), c) ELSE s

\* strings.Trim(s, cutset) for a cutset of one character
Trim(s, c) == TrimRight(TrimLeft(s, c), c)

\* the outcome of time.Parse
Parsed(t) == [ t |-> t, err |-> "" ]
ParseError(problem) == [ t |-> ZeroTime, err |-> "parsing time: " \o problem ]
errBad == ParseError("cannot parse")

\* getnum(s, fixed): the number that starts s, of two digits, or of one when not fixed
getnum(s, fixed) ==
    IF Len(s) < 1 \/ ~isDigit(s[1]) THEN [ ok |-> FALSE, n |-> 0, rest |-> s ]
    ELSE IF Len(s) < 2 \/ ~isDigit(s[2])
         THEN [ ok |-> ~fixed, n |-> IF fixed THEN 0 ELSE digit(s[1]),
                rest |-> IF fixed THEN s ELSE Drop(s, 1) ]
    ELSE [ ok |-> TRUE, n |-> digit(s[1]) * 10 + digit(s[2]), rest |-> Drop(s, 2) ]

\* the end of the layout: no text may be left, and the day must exist in its month
parseEnd(value, t) ==
    IF Len(value) > 0 THEN ParseError("extra text")
    ELSE IF t.day < 1 \/ t.day > daysIn(t.month, t.year) THEN ParseError("day out of range")
    ELSE Parsed(t)

\* stdISO8601TZ "Z0700": the letter Z, or a sign and four digits.  Offsets stay
\* below 24:00, which every release of the time package accepts.
parseZone(value, t) ==
    IF Len(value) >= 1 /\ value[1] = "Z" THEN parseEnd(Drop(value, 1), t)
    ELSE IF Len(value) < 5 THEN errBad
    ELSE IF ~(\A i \in 2..5 : isDigit(value[i])) THEN errBad
    ELSE IF value[1] = "+"
         THEN parseEnd(Drop(value, 5),
                       [ t EXCEPT !.offset = (atoi(SubSeq(value, 2, 3)) * 60
                                              + atoi(SubSeq(value, 4, 5))) * 60 ])
    ELSE IF value[1] = "-"
         THEN parseEnd(Drop(value, 5),
                       [ t EXCEPT !.offset = 0 - (atoi(SubSeq(value, 2, 3)) * 60
                                                  + atoi(SubSeq(value, 4, 5))) * 60 ])
    ELSE errBad

\* parseNanoseconds(value, nbytes): value is the separator and n - 1 digits, at most nine
parseNanoseconds(value, n) == atoi(SubSeq(value, 2, n)) * pow10(10 - n)

\* after stdZeroSecond: a fractional second that the layout does not name is read too
parseFraction(value, t) ==
    IF Len(value) >= 2 /\ value[1] \in { ".", "," } /\ isDigit(value[2])
    THEN parseZone(Drop(value, digitsEnd(value, 2) - 1),
                   [ t EXCEPT !.nsec = parseNanoseconds(value, digitsEnd(value, 2) - 1) ])
    ELSE parseZone(value, t)

\* ":05"
parseSecond(t, g) ==
    IF ~g.ok THEN errBad
    ELSE IF g.n >= 60 THEN ParseError("second out of range")
    ELSE parseFraction(g.rest, [ t EXCEPT !.sec = g.n ])

\* ":04"
parseMinute(t, g) ==
    IF ~g.ok THEN errBad
    ELSE IF g.n >= 60 THEN ParseError("minute out of range")
    ELSE IF Len(g.rest) < 1 \/ g.rest[1] # ":" THEN errBad
    ELSE parseSecond([ t EXCEPT !.min = g.n ], getnum(Drop(g.rest, 1), TRUE))

\* "T15": the hour is read with getnum(value, false), so one digit is enough
parseHour(t, g) ==
    IF ~g.ok THEN errBad
    ELSE IF g.n >= 24 THEN ParseError("hour out of range")
    ELSE IF Len(g.rest) < 1 \/ g.rest[1] # ":" THEN errBad
    ELSE parseMinute([ t EXCEPT !.hour = g.n ], getnum(Drop(g.rest, 1), TRUE))

\* "-02"
parseDay(t, g) ==
    IF ~g.ok THEN errBad
    ELSE IF Len(g.rest) < 1 \/ g.rest[1] # "T" THEN errBad
    ELSE parseHour([ t EXCEPT !.day = g.n ], getnum(Drop(g.rest, 1), FALSE))

\* "-01"
parseMonth(t, g) ==
    IF ~g.ok THEN errBad
    ELSE IF g.n <= 0 \/ 12 < g.n THEN ParseError("month out of range")
    ELSE IF Len(g.rest) < 1 \/ g.rest[1] # "-" THEN errBad
    ELSE parseDay([ t EXCEPT !.month = g.n ], getnum(Drop(g.rest, 1), TRUE))

\* time.Parse("2006-01-02T15:04:05Z0700", value): "2006" is four digits
timeParse(value) ==
    IF Len(value) < 4 \/ ~(\A i \in 1..4 : isDigit(value[i])) THEN errBad
    ELSE IF Len(value) < 5 \/ value[5] # "-" THEN errBad
    ELSE parseMonth([ ZeroTime EXCEPT !.year = atoi(Take(value, 4)) ],
                    getnum(Drop(value, 5), TRUE))

NullToken == << "n", "u", "l", "l" >>

\* (d *isoDate).UnmarshalJSON(raw), with the time already parsed: the receiver's
\* new value and the error returned
unmarshalParsed(d, p) ==
    IF p.err # "" THEN [ d |-> d, err |-> p.err ] ELSE [ d |-> p.t, err |-> "" ]

unmarshalJSON(d, raw) ==
    IF Contains(raw, NullToken) \/ Len(raw) = 0 THEN [ d |-> d, err |-> "" ]
    ELSE unmarshalParsed(d, timeParse(Trim(raw, "\"")))

\* the fraction of RFC3339Nano ".999999999": nothing for zero, else the nine digits
\* without their trailing zeros
RECURSIVE trimZeros(_)
trimZeros(s) == IF Len(s) > 0 /\ s[Len(s)] = "0" THEN trimZeros(Take(s, Len(s) - 1)) ELSE s

formatNano(ns) == IF ns = 0 THEN << >> ELSE << "." >> \o trimZeros(appendInt(ns, 9))

absInt(x) == IF x < 0 THEN 0 - x ELSE x

\* "Z07:00": Z for UTC, else the sign, the hours, a colon and the minutes
formatZone(off) ==
    IF off = 0 THEN << "Z" >>
    ELSE << IF off < 0 THEN "-" ELSE "+" >> \o appendInt(absInt(off) \div 3600, 2)
         \o << ":" >> \o appendInt((absInt(off) \div 60) % 60, 2)

\* t.AppendFormat(b, RFC3339Nano)
formatRFC3339Nano(t) ==
    appendInt(t.year, 4) \o << "-" >> \o appendInt(t.month, 2) \o << "-" >>
        \o appendInt(t.day, 2) \o << "T" >> \o appendInt(t.hour, 2) \o << ":" >>
        \o appendInt(t.min, 2) \o << ":" >> \o appendInt(t.sec, 2)
        \o formatNano(t.nsec) \o formatZone(t.offset)

\* time.Time.MarshalJSON, the encoder of an isoDate: the quoted RFC 3339 text
marshalJSON(t) ==
    IF t.year < 0 \/ t.year >= 10000
    THEN [ b |-> << >>, err |-> "Time.MarshalJSON: year outside of range [0,9999]" ]
    ELSE [ b |-> << "\"" >> \o formatRFC3339Nano(t) \o << "\"" >>, err |-> "" ]

-----------------------------------------------------------------------------
(* The query builders: url.PathEscape, convListParam, isId, the formatDate   *)
(* of the two services and the request paths of the searches.  Names and     *)
(* list values are made of lower-case letters, digits, the characters that   *)
(* PathEscape leaves alone and the ones HexOf lists.  A float64 coordinate   *)
(* is a whole number of millionths, which is what %f prints of it.           *)

\* the characters of a text that the code only formats into a path
Chars(text) ==
    CASE text = "via" -> << "v","i","a" >>
      [] text = "transportations" ->
             << "t","r","a","n","s","p","o","r","t","a","t","i","o","n","s" >>
      [] text = "all" -> << "a","l","l" >>
      [] text = "station" -> << "s","t","a","t","i","o","n" >>
      [] text = "id" -> << "i","d" >>
      [] text = "departure" -> << "d","e","p","a","r","t","u","r","e" >>
      [] text = "arrival" -> << "a","r","r","i","v","a","l" >>
      [] text = "train" -> << "t","r","a","i","n" >>
      [] text = "tram" -> << "t","r","a","m" >>
      [] text = "locations?query=" ->
             << "l","o","c","a","t","i","o","n","s","?","q","u","e","r","y","=" >>
      [] text = "&type=" -> << "&","t","y","p","e","=" >>
      [] text = "locations?x=" -> << "l","o","c","a","t","i","o","n","s","?","x","=" >>
      [] text = "&y=" -> << "&","y","=" >>
      [] text = "connections?from=" ->
             << "c","o","n","n","e","c","t","i","o","n","s","?","f","r","o","m","=" >>
      [] text = "&to=" -> << "&","t","o","=" >>
      [] text = "&date=" -> << "&","d","a","t","e","=" >>
      [] text = "&time=" -> << "&","t","i","m","e","=" >>
      [] text = "&isArrivalTime=" ->
             << "&","i","s","A","r","r","i","v","a","l","T","i","m","e","=" >>
      [] text = "&direct=" -> << "&","d","i","r","e","c","t","=" >>
      [] text = "&bike=" -> << "&","b","i","k","e","=" >>
      [] text = "&sleeper=" -> << "&","s","l","e","e","p","e","r","=" >>
      [] text = "&couchette=" -> << "&","c","o","u","c","h","e","t","t","e","=" >>
      [] text = "&limit=" -> << "&","l","i","m","i","t","=" >>
      [] text = "stationboard?" ->
             << "s","t","a","t","i","o","n","b","o","a","r","d","?" >>
      [] text = "&datetime=" -> << "&","d","a","t","e","t","i","m","e","=" >>

\* the byte of a character in upper-case hexadecimal
HexOf(c) ==
    CASE c = " " -> << "2","0" >>
      [] c = "/" -> << "2","F" >>
      [] c = "?" -> << "3","F" >>
      [] c = "," -> << "2","C" >>
      [] c = ";" -> << "3","B" >>
      [] c = "%" -> << "2","5" >>
      [] c = "\t" -> << "0","9" >>

\* url.shouldEscape(c, encodePathSegment)
shouldEscape(c) ==
    IF c \in Letters \cup Digits \cup { "-", "_", ".", "~" } THEN FALSE
    ELSE IF c \in { "$", "&", "+", "=", ":", "@" } THEN FALSE
    ELSE TRUE

\* url.PathEscape(s)
RECURSIVE PathEscape(_)
PathEscape(s) ==
    IF s = << >> THEN << >>
    ELSE (IF shouldEscape(s[1]) THEN << "%" >> \o HexOf(s[1]) ELSE << s[1] >>)
         \o PathEscape(Drop(s, 1))

\* fmt's %d of an int
itoa(n) == IF n < 0 THEN << "-" >> \o appendInt(0 - n, 1) ELSE appendInt(n, 1)

\* the result of convListParam
ListParam(s, err) == [ s |-> s, err |-> err ]

\* convListParam's loop from the element at position i (index i - 1) with paramList built
RECURSIVE convListFrom(_, _, _, _)
convListFrom(values, name, i, paramList) ==
    IF i > Len(values) THEN ListParam(paramList, "")
    ELSE IF Len(values[i]) = 0
    THEN ListParam(<< >>, name \o " filter at index " \o ToString(i - 1) \o " cannot be empty")
    ELSE convListFrom(values, name, i + 1,
                      paramList \o << "&" >> \o Chars(name) \o << "[", "]", "=" >>
                          \o PathEscape(values[i]))

\* convListParam that reports the position of the empty element counted from one
convListParam_countsFromOne(values, name) ==
    IF \E i \in 1..Len(values) : Len(values[i]) = 0
    THEN ListParam(<< >>, name \o " filter at index "
                          \o ToString(CHOOSE i \in 1..Len(values) :
                                         /\ Len(values[i]) = 0
                                         /\ \A j \in 1..(i - 1) : Len(values[j]) # 0)
                          \o " cannot be empty")
    ELSE convListFrom(values, name, 1, << >>)

\* convListParam(values, name)
convListParam(values, name) == convListFrom(values, name, 1, << >>)

\* strconv.Atoi(v) succeeds: an optional sign and digits (no value of the model
\* is long enough to overflow an int)
atoiOk(v) ==
    \/ Len(v) >= 1 /\ \A i \in 1..Len(v) : isDigit(v[i])
    \/ Len(v) >= 2 /\ v[1] \in { "+", "-" } /\ \A i \in 2..Len(v) : isDigit(v[i])

\* isId(v)
isId(v) == Len(v) > 5 /\ atoiOk(v)

\* Time.IsZero
IsZero(t) == Instant(t) = Instant(ZeroTime)

ZeroDate == "provided date is zero: please provide a valid time.Time as date"

\* date.Format("2006-01-02") and date.Format("15:04")
formatDay(t) ==
    appendInt(t.year, 4) \o << "-" >> \o appendInt(t.month, 2) \o << "-" >>
        \o appendInt(t.day, 2)
formatMinute(t) == appendInt(t.hour, 2) \o << ":" >> \o appendInt(t.min, 2)

\* ConnectionService.formatDate(date): [d, t, err]
connFormatDate(date) ==
    IF IsZero(date) THEN [ d |-> << >>, t |-> << >>, err |-> ZeroDate ]
    ELSE [ d |-> formatDay(date), t |-> formatMinute(date), err |-> "" ]

\* StationboardService.formatDate(date): [s, err]
stbFormatDate(date) ==
    IF IsZero(date) THEN [ s |-> << >>, err |-> ZeroDate ]
    ELSE [ s |-> formatDay(date) \o << " " >> \o formatMinute(date), err |-> "" ]

\* boolToInt(value), as %d prints it
boolToInt(value) == IF value THEN << "1" >> ELSE << "0" >>

\* the outcome of a path builder
Path(path, err) == [ path |-> path, err |-> err ]

\* ConnectionService.buildUrlPath with the two list parameters converted
connUrlPath(from, to, date, time, opts, via, transportations) ==
    IF via.err # "" THEN Path(<< >>, via.err)
    ELSE IF transportations.err # "" THEN Path(<< >>, transportations.err)
    ELSE Path(Chars("connections?from=") \o PathEscape(from)
              \o Chars("&to=") \o PathEscape(to)
              \o Chars("&date=") \o PathEscape(date)
              \o Chars("&time=") \o PathEscape(time)
              \o Chars("&isArrivalTime=") \o boolToInt(opts.IsArrival)
              \o Chars("&direct=") \o boolToInt(opts.Direct)
              \o Chars("&bike=") \o boolToInt(opts.Bike)
              \o Chars("&sleeper=") \o boolToInt(opts.Sleeper)
              \o Chars("&couchette=") \o boolToInt(opts.Couchette)
              \o via.s \o transportations.s
              \o Chars("&limit=") \o itoa(opts.Limit), "")

\* ConnectionService.buildUrlPath(from, to, date, time, opts)
connBuildUrlPath(from, to, date, time, opts) ==
    connUrlPath(from, to, date, time, opts, convListParam(opts.Via, "via"),
                convListParam(opts.Transportations, "transportations"))

\* ConnectionService.SearchWithOpts up to s.query: the path, or the error returned
connSearchPath(from, to, date, opts, fd) ==
    IF fd.err # "" THEN Path(<< >>, "bad input parameter: " \o fd.err)
    ELSE connBuildUrlPath(from, to, fd.d, fd.t, opts)

\* StationboardService.buildUrlPath with the list parameter and the date converted
stbUrlPath(name, opts, transportations, date) ==
    IF Len(name) = 0 THEN Path(<< >>, "no location name or id to search for")
    ELSE IF transportations.err # "" THEN Path(<< >>, transportations.err)
    ELSE IF date.err # "" THEN Path(<< >>, "failed to build url path: " \o date.err)
    ELSE Path(Chars("stationboard?") \o Chars(IF isId(name) THEN "id" ELSE "station")
              \o << "=" >> \o PathEscape(name)
              \o Chars("&limit=") \o itoa(opts.Limit)
              \o Chars("&type=")
              \o PathEscape(Chars(IF opts.Arrival THEN "arrival" ELSE "departure"))
              \o Chars("&datetime=") \o PathEscape(date.s)
              \o transportations.s, "")

\* StationboardService.buildUrlPath(name, opts)
stbBuildUrlPath(name, opts) ==
    stbUrlPath(name, opts, convListParam(opts.Transportations, "transportations"),
               stbFormatDate(opts.DateTime))

\* fmt's %f of a float64 that is micro millionths
formatF(micro) ==
    (IF micro < 0 THEN << "-" >> ELSE << >>)
        \o appendInt(absInt(micro) \div 1000000, 1) \o << "." >>
        \o appendInt(absInt(micro) % 1000000, 6)

\* the path of LocationService.SearchWithType
locationPath(name, locationType) ==
    Chars("locations?query=") \o PathEscape(name) \o Chars("&type=") \o locationType

\* the path of LocationService.SearchWithCoordinates
coordinatesPath(lat, long) ==
    Chars("locations?x=") \o formatF(lat) \o Chars("&y=") \o formatF(long)

\* LocationType constants
TypeAll == Chars("all")
TypeStation == Chars("station")

-----------------------------------------------------------------------------
(* Inputs *)

\* attempts handed to MaxRetry: both sides of each limit of validRetry, and values between
AttemptInputs == { -1, 0, 1, 2, 7, RetryLimit, MaxAttemptsInput }
PauseInputs == 0..MaxPauseInput
UserAgentInputs == { "", "Testing" }

\* custom API URLs: the ones of TestNewClientWithUrl and TestValidClientConfigErrors
\* with the host shortened to one letter
UrlInputs ==
    { << "h","t","t","p","s",":","/","/","l",":","3","0","0","1","/","v","1" >>,  \* "https://l:3001/v1"
      DefaultApiURL,
      << "h","t","t","p","s",":","/","/","/","v","1" >>,                          \* "https:///v1"
      << "/","/","l",":","3","0","0","1","/","v","1" >>,                          \* "//l:3001/v1"
      << >>,                                                                      \* ""
      << "+",".","h","t","t","p","s",":","/","l","/","v","1" >>,                  \* "+.https:/l/v1"
      << ".","c","o","m" >>,                                                      \* ".com"
      << "h","t","t","p","s",":","/","/","l",":","x","/","v","1" >>,              \* "https://l:x/v1"
      << "h","t","t","p","s",":","/","/","l","/","v","1","?","k" >> }             \* "https://l/v1?k"

\* URLs of the configs handed to newClientWithConfig, as the tests build them with
\* url.Parse (TestValidClientConfig, TestValidClientConfigErrors)
ConfigUrlInputs ==
    { << "h","t","t","p","s",":","/","/","l",":","3","0","0","1","/","v","1" >>,  \* "https://l:3001/v1"
      << "h","t","t","p","s",":","/","/","/","v","1" >>,                          \* "https:///v1"
      << "/","/","l",":","3","0","0","1","/","v","1" >>,                          \* "//l:3001/v1"
      << ".","c","o","m" >>,                                                      \* ".com"
      DefaultApiURL }

\* *clientConfig values handed to newClientWithConfig
ConfigInputs ==
    { Nil } \cup
    { Ptr(c) : c \in
        [ apiUrl        : { Nil } \cup { Ptr(Parse(u).url) : u \in ConfigUrlInputs },
          userAgent     : UserAgentInputs,
          maxRetry      : { -1, DefaultMaxRetry - 1, MaxAttemptsInput },
          maxRetryPause : PauseInputs ] }

\* request paths handed to Client.NewRequest
PathInputs == { << "l","o","c","a","t","i","o","n","s","?","q","u","e","r","y","=","z" >> }

CtxInputs == { Nil, Ptr("ctx") }
Background == Ptr("Background")

\* requests the caller builds itself with http.NewRequest (TestClient_Do,
\* TestClient_validRequest)
RawRequestInputs ==
    { [ method |-> "POST", url |-> DefaultApiURL, body |-> FALSE ],
      [ method |-> "GET",  url |-> DefaultApiURL, body |-> TRUE ],
      [ method |-> "GET",  url |-> << "h","t","t","p",":","/","/" >>, body |-> FALSE ],
      [ method |-> "GET",  url |-> << "t",".","c","h" >>, body |-> FALSE ] }

\* response bodies
RECURSIVE BytesUpTo(_)
BytesUpTo(n) == IF n = 0 THEN { <<>> } ELSE { <<>> } \cup { <<"b">> \o t : t \in BytesUpTo(n - 1) }

\* response bodies that hold a JSON document, or what is meant to be one:
\* the malformed document of the decoder tests, an empty object, a location
\* result with one station, and an array where an object is expected
JsonBodies ==
    { << "{","I","n","v","a","l","i","d",":"," ","J","s","o","n","}" >>,          \* {Invalid: Json}
      << "{","}" >>,                                                               \* {}
      << "{","\"","s","t","a","t","i","o","n","s","\"",":",
         "[","{","\"","i","d","\"",":","\"","8","\"","}","]","}" >>,            \* {"stations":[{"id":"8"}]}
      << "[","]" >> }                                                              \* []

Bodies == BytesUpTo(MaxBody) \cup JsonBodies

Statuses == { 200, 301, 404, 429, 499, 500, 503 }

\* what one httpClient.Do exchange can bring: a transport failure (status 0), or a
\* response with a status; a 200 response has a body whose reading may fail
Outcomes ==
    { [ status |-> 0, body |-> <<>>, readErr |-> FALSE ] } \cup
    { [ status |-> s, body |-> <<>>, readErr |-> FALSE ] : s \in Statuses \ { StatusOK } } \cup
    { [ status |-> StatusOK, body |-> b, readErr |-> FALSE ] : b \in Bodies } \cup
    { [ status |-> StatusOK, body |-> <<>>, readErr |-> TRUE ] }

NoOutcome == [ status |-> -1, body |-> <<>>, readErr |-> FALSE ]
NoResult == [ r |-> <<>>, err |-> "" ]
NoOut == [ r |-> <<>>, err |-> "", n |-> -1 ]
NoQueryResult == [ res |-> Nil, err |-> "" ]

\* the services of a client
Services == { "Location", "Connection", "Stationboard" }

\* request paths handed to XService.query: the ones of the query builders and the
\* empty path of TestLocationService_queryFailed
QueryPathInputs ==
    { << "l","o","c","a","t","i","o","n","s","?","q","u","e","r","y","=","z" >>,
      << >> }

-----------------------------------------------------------------------------
(* The retrying executor's pure parts *)

\* f with the server-error threshold at 400 instead of 500
f_errorFrom400(o) ==
    IF o.status = 0
    THEN [ r |-> <<>>, err |-> "failed to proceed http request" ]
    ELSE IF o.status >= 400
    THEN [ r |-> <<>>, err |-> "remote server responded with an error" ]
    ELSE IF o.status = StatusOK
    THEN IF o.readErr
         THEN [ r |-> <<>>, err |-> "failed to parse response" ]
         ELSE [ r |-> o.body, err |-> "" ]
    ELSE [ r |-> <<>>, err |-> "" ]

\* the closure Do hands to retry, applied to the outcome of httpClient.Do
f(o) ==
    IF o.status = 0
    THEN [ r |-> <<>>, err |-> "failed to proceed http request" ]
    ELSE IF o.status >= StatusInternalServerError
    THEN [ r |-> <<>>, err |-> "remote server responded with an error" ]
    ELSE IF o.status = StatusOK
    THEN IF o.readErr
         THEN [ r |-> <<>>, err |-> "failed to parse response" ]
         ELSE [ r |-> o.body, err |-> "" ]
    ELSE [ r |-> <<>>, err |-> "" ]

\* retryAgain without the test of err
retryAgain_ignoresErr(a, err) == a - 1 > 0

\* retryAgain that goes on while the attempts left are not negative
retryAgain_whileNotNegative(a, err) == err # "" /\ a >= 0

\* retry's decision after f returned err with `a` attempts left: attempts--; attempts > 0
retryAgain(a, err) == err # "" /\ a - 1 > 0

\* the count Do prints in "failed to perform the http request after %d retries"
reportedRetries(cfg) == cfg.maxRetry

-----------------------------------------------------------------------------
(* State machine *)

\* The operations of a client are called one after the other (its configuration is
\* set up from the code that uses it, not concurrently with its queries); SpecRace
\* alone has a MaxRetry call that runs beside a call of Do.
Idle == pc = "idle"

\* wire values of a timestamp field handed to isoDate.UnmarshalJSON, each with the
\* text it stands for
\*   null                             the null token
\*   (nothing)                        no bytes at all
\*   ""                               the empty JSON string
\*   "2019-03-31T08:58:00+0200"       the documented form
\*   "2020-02-29T23:59:59-0330"       a leap day, west of UTC
\*   "2020-01-01T00:00:00Z"           UTC written as Z
\*   "2019-03-31T08:58:00+02:00"      a colon in the offset
\*   "2019-03-31 08:58:00+0200"       a space for the T
\*   "2019-13-31T08:58:00+0200"       month 13
\*   "2019-02-29T08:58:00+0200"       a day its month does not have
\*   "2019-03-31T24:00:00+0200"       hour 24
\*   "2019-03-31T08:60:00+0200"       minute 60
\*   "2019-03-31T08:58:00"            no zone
\*   "2019-03-31T08:58:00+0200x"      text after the zone
\*   "2019-03-31T8:58:00+0200"        an hour of one digit
\*   "2019-03-31T08:58:00.5+0200"     a fractional second
\*   "19-03-31T08:58:00+0200"         a year of two digits
\*   "abc"                            a word
\*   "null"                           the word null as a JSON string
\*   "nullx"                          a JSON string that contains null
\*   "2019-null"                      a broken date that contains null
\*   2019-03-31T08:58:00+0200         the documented form without quotes
\*   ""2019-03-31T08:58:00+0200""     the documented form quoted twice
\*   1553929080                       a number
\*   true                             a literal
WireInputs ==
    { << "n", "u", "l", "l" >>,
      << >>,
      << "\"", "\"" >>,
      << "\"", "2", "0", "1", "9", "-", "0", "3", "-", "3", "1", "T", "0", "8", ":", "5", "8", ":", "0", "0", "+", "0", "2", "0", "0", "\"" >>,
      << "\"", "2", "0", "2", "0", "-", "0", "2", "-", "2", "9", "T", "2", "3", ":", "5", "9", ":", "5", "9", "-", "0", "3", "3", "0", "\"" >>,
      << "\"", "2", "0", "2", "0", "-", "0", "1", "-", "0", "1", "T", "0", "0", ":", "0", "0", ":", "0", "0", "Z", "\"" >>,
      << "\"", "2", "0", "1", "9", "-", "0", "3", "-", "3", "1", "T", "0", "8", ":", "5", "8", ":", "0", "0", "+", "0", "2", ":", "0", "0", "\"" >>,
      << "\"", "2", "0", "1", "9", "-", "0", "3", "-", "3", "1", " ", "0", "8", ":", "5", "8", ":", "0", "0", "+", "0", "2", "0", "0", "\"" >>,
      << "\"", "2", "0", "1", "9", "-", "1", "3", "-", "3", "1", "T", "0", "8", ":", "5", "8", ":", "0", "0", "+", "0", "2", "0", "0", "\"" >>,
      << "\"", "2", "0", "1", "9", "-", "0", "2", "-", "2", "9", "T", "0", "8", ":", "5", "8", ":", "0", "0", "+", "0", "2", "0", "0", "\"" >>,
      << "\"", "2", "0", "1", "9", "-", "0", "3", "-", "3", "1", "T", "2", "4", ":", "0", "0", ":", "0", "0", "+", "0", "2", "0", "0", "\"" >>,
      << "\"", "2", "0", "1", "9", "-", "0", "3", "-", "3", "1", "T", "0", "8", ":", "6", "0", ":", "0", "0", "+", "0", "2", "0", "0", "\"" >>,
      << "\"", "2", "0", "1", "9", "-", "0", "3", "-", "3", "1", "T", "0", "8", ":", "5", "8", ":", "0", "0", "\"" >>,
      << "\"", "2", "0", "1", "9", "-", "0", "3", "-", "3", "1", "T", "0", "8", ":", "5", "8", ":", "0", "0", "+", "0", "2", "0", "0", "x", "\"" >>,
      << "\"", "2", "0", "1", "9", "-", "0", "3", "-", "3", "1", "T", "8", ":", "5", "8", ":", "0", "0", "+", "0", "2", "0", "0", "\"" >>,
      << "\"", "2", "0", "1", "9", "-", "0", "3", "-", "3", "1", "T", "0", "8", ":", "5", "8", ":", "0", "0", ".", "5", "+", "0", "2", "0", "0", "\"" >>,
      << "\"", "1", "9", "-", "0", "3", "-", "3", "1", "T", "0", "8", ":", "5", "8", ":", "0", "0", "+", "0", "2", "0", "0", "\"" >>,
      << "\"", "a", "b", "c", "\"" >>,
      << "\"", "n", "u", "l", "l", "\"" >>,
      << "\"", "n", "u", "l", "l", "x", "\"" >>,
      << "\"", "2", "0", "1", "9", "-", "n", "u", "l", "l", "\"" >>,
      << "2", "0", "1", "9", "-", "0", "3", "-", "3", "1", "T", "0", "8", ":", "5", "8", ":", "0", "0", "+", "0", "2", "0", "0" >>,
      << "\"", "\"", "2", "0", "1", "9", "-", "0", "3", "-", "3", "1", "T", "0", "8", ":", "5", "8", ":", "0", "0", "+", "0", "2", "0", "0", "\"", "\"" >>,
      << "1", "5", "5", "3", "9", "2", "9", "0", "8", "0" >>,
      << "t", "r", "u", "e" >> }

\* present isoDate values: both years around a leap day, the ends of the day and of
\* the minute, with and without a fraction, in UTC and east and west of it
TimeInputs ==
    { Time(y, md[1], md[2], h, 30, s, ns, off) :
          y \in { 2019, 2020 }, md \in { << 2, 28 >>, << 12, 31 >> }, h \in { 0, 23 },
          s \in { 0, 59 }, ns \in { 0, 500000000 }, off \in { 0, 7200, 0 - 12600 } }

\* inputs of the searches: a client whose URL has an empty port for a host, names
\* (plain, with a space, empty, a station id), location types (one with a control
\* byte), coordinates in millionths, dates (the zero time, a date, the zero instant
\* in another zone) and lists with and without an empty element
SearchUrlInputs == { << "h","t","t","p","s",":","/","/",":","/","v","1" >> }   \* "https://:/v1"
NameInputs ==
    { << "z" >>, << "a"," ","b" >>, << >>, << "8","5","0","3","0","0","0" >> }
LocationTypeInputs == { TypeAll, TypeStation, << "a","\t" >> }
CoordinateInputs == { << 47476001, 8306130 >>, << 0 - 1, 0 >> }
DateInputs ==
    { ZeroTime, Time(2020, 5, 2, 20, 0, 0, 0, 0), Time(1, 1, 1, 2, 0, 0, 0, 7200) }
ViaInputs == { << >>, << << "a" >> >>, << << "a" >>, << >> >>, << << >>, << >> >> }
TransportationInputs ==
    { << >>, << Chars("tram"), Chars("train") >>, << Chars("train"), << >> >> }

\* the zero value of ConnOpts
ZeroConnOpts ==
    [ IsArrival |-> FALSE, Transportations |-> << >>, Via |-> << >>, Bike |-> FALSE,
      Couchette |-> FALSE, Sleeper |-> FALSE, Direct |-> FALSE, Limit |-> 0 ]

\* a date that is not the zero time
GoodDates == { d \in DateInputs : ~IsZero(d) }

ConnOptsInputs ==
    { [ ZeroConnOpts EXCEPT !.Transportations = t, !.IsArrival = a ] :
          t \in TransportationInputs, a \in BOOLEAN }

StbOptsInputs ==
    { [ Transportations |-> t, DateTime |-> d, Arrival |-> a, Limit |-> 0 ] :
          t \in TransportationInputs, d \in GoodDates, a \in BOOLEAN }

\* a reply with two stations: {"stations":[{"id":"8"},{"id":"9"}]}
TwoStations ==
    << "{","\"","s","t","a","t","i","o","n","s","\"",":","[",
       "{","\"","i","d","\"",":","\"","8","\"","}",",",
       "{","\"","i","d","\"",":","\"","9","\"","}","]","}" >>

\* what an exchange of a search can bring
SearchOutcomes ==
    Outcomes \cup { [ status |-> StatusOK, body |-> TwoStations, readErr |-> FALSE ] }

\* lists handed to convListParam: elements that are plain, empty, with a space and
\* with a comma, under the two parameter names of the builders
ListValues == { << "a" >>, << >>, << "a"," ","b" >>, << "b","," >> }
ListInputs == UNION { [ 1..n -> ListValues ] : n \in 0..MaxList }
ListNames == { "via", "transportations" }

\* the arguments of the MaxRetry calls made while Do runs: two policies and a pair
\* that validRetry refuses
RaceInputs ==
    { << 1, MinRetryPause >>, << 2, MinRetryPause + 1 >>, << RetryLimit + 1, MinRetryPause >> }

\* request paths handed to Client.NewRequest by the code that uses the client
SearchPathInputs == PathInputs \cup { << "a","\t" >> }

\* A constructor call makes a new client that shares nothing with an earlier one.
\* The model follows one client: the constructor calls that fail to make it, the
\* one that makes it, and the operations on it.
NoClient == client = Nil

\* c.cfg of the live client
Cfg == Deref(client).cfg

Init ==
    /\ client = Nil
    /\ ret = ""
    /\ req = Nil
    /\ pc = "idle"
    /\ pause = 0
    /\ attempts = 0
    /\ fres = NoResult
    /\ out = NoOut
    /\ exchanges = 0
    /\ pauses = 0
    /\ last = NoOutcome
    /\ slept = 0
    /\ cancelledAt = -1
    /\ svc = ""
    /\ parsed = NoQueryResult
    /\ result = NoQueryResult
    /\ emitted = 0
    /\ isoSource = Nil
    /\ isoRaw = << >>
    /\ isoValue = ZeroTime
    /\ isoErr = ""
    /\ isoPc = "new"
    /\ convIn = Nil
    /\ convOut = [ s |-> << >>, err |-> "" ]
    /\ mpc = "idle"
    /\ margs = << >>
    /\ policies = { }

\* newClientWithConfig(httpClient, cfg)
newClientWithConfig(cfg) ==
    /\ Idle
    /\ NoClient
    /\ LET b == buildClient(cfg)
       IN /\ client' = b.client
          /\ ret' = b.err
    /\ emitted' = 0
    /\ UNCHANGED <<req, frame, aside>>

\* NewClient()
NewClient ==
    /\ Idle
    /\ NoClient
    /\ client' = buildClient(Ptr([ apiUrl        |-> Ptr(Parse(DefaultApiURL).url),
                                   userAgent     |-> DefaultUserAgent,
                                   maxRetry      |-> DefaultMaxRetry,
                                   maxRetryPause |-> DefaultRetryPause ])).client
    /\ ret' = ""
    /\ emitted' = 0
    /\ UNCHANGED <<req, frame, aside>>

\* NewClientWithUrl as a function: [client |-> the new client or Nil, err |-> text]
clientWithUrl(customURL) ==
    LET p == Parse(customURL) IN
    IF Len(customURL) = 0
    THEN [ client |-> Nil, err |-> "custom URL does not have to be empty" ]
    ELSE IF p.err # ""
    THEN [ client |-> Nil, err |-> "could not parse api URL: " \o p.err ]
    ELSE IF Len(p.url.Scheme) = 0
    THEN [ client |-> Nil, err |-> "could not parse api URL: empty scheme" ]
    ELSE IF Len(p.url.Host) = 0
    THEN [ client |-> Nil, err |-> "could not parse api URL: empty host" ]
    ELSE buildClient(Ptr([ apiUrl        |-> Ptr(p.url),
                           userAgent     |-> DefaultUserAgent,
                           maxRetry      |-> DefaultMaxRetry,
                           maxRetryPause |-> DefaultRetryPause ]))

\* NewClientWithUrl(httpClient, customURL)
NewClientWithUrl(customURL) ==
    /\ Idle
    /\ NoClient
    /\ LET b == clientWithUrl(customURL)
       IN /\ client' = b.client
          /\ ret' = b.err
    /\ emitted' = 0
    /\ UNCHANGED <<req, frame, aside>>

\* Client.EnableLogs that redirects the debug sink only
EnableLogs_debugOnly(w) ==
    /\ Idle
    /\ client # Nil
    /\ client' = IF w # Nil
                 THEN [ client EXCEPT ![1].debug = Deref(w) ]
                 ELSE [ client EXCEPT ![1].debug = "Stdout" ]
    /\ emitted' = Printf(Deref(client').debug)
    /\ ret' = ""
    /\ UNCHANGED <<req, frame, aside>>

\* Client.EnableLogs(out)
EnableLogs(w) ==
    /\ Idle
    /\ client # Nil
    /\ client' = IF w # Nil
                 THEN [ client EXCEPT ![1].debug = Deref(w), ![1].error = Deref(w) ]
                 ELSE [ client EXCEPT ![1].debug = "Stdout", ![1].error = "Stderr" ]
    /\ emitted' = Printf(Deref(client').debug)
    /\ ret' = ""
    /\ UNCHANGED <<req, frame, aside>>

\* Client.UserAgent that also puts the retry policy back to its defaults
UserAgent_resetsRetry(userAgent) ==
    /\ Idle
    /\ client # Nil
    /\ client' = [ client EXCEPT
                     ![1].cfg.userAgent = IF userAgent # "" THEN userAgent ELSE DefaultUserAgent,
                     ![1].cfg.maxRetry = DefaultMaxRetry,
                     ![1].cfg.maxRetryPause = DefaultRetryPause ]
    /\ ret' = ""
    /\ emitted' = 0
    /\ UNCHANGED <<req, frame, aside>>

\* Client.UserAgent without the fallback to the default
UserAgent_noFallback(userAgent) ==
    /\ Idle
    /\ client # Nil
    /\ client' = [ client EXCEPT ![1].cfg.userAgent = userAgent ]
    /\ ret' = ""
    /\ emitted' = 0
    /\ UNCHANGED <<req, frame, aside>>

\* Client.UserAgent(userAgent)
UserAgent(userAgent) ==
    /\ Idle
    /\ client # Nil
    /\ client' = IF userAgent # ""
                 THEN [ client EXCEPT ![1].cfg.userAgent = userAgent ]
                 ELSE [ client EXCEPT ![1].cfg.userAgent = DefaultUserAgent ]
    /\ ret' = ""
    /\ emitted' = 0
    /\ UNCHANGED <<req, frame, aside>>

\* Client.MaxRetry(attempts, pause)
MaxRetry(a, p) ==
    /\ Idle
    /\ client # Nil
    /\ IF validRetry(a, p) # ""
       THEN /\ ret' = "failed to configure retry options: " \o validRetry(a, p)
            /\ UNCHANGED client
       ELSE /\ ret' = ""
            /\ client' = [ client EXCEPT ![1].cfg.maxRetry = a, ![1].cfg.maxRetryPause = p ]
    /\ emitted' = 0
    /\ UNCHANGED <<req, frame, aside>>

\* Client.NewRequest as a function: [req |-> the request or Nil, err |-> text]
buildRequest(ctx, path) ==
    LET c == IF ctx = Nil THEN Background ELSE ctx
        reqUrl == String(Deref(Cfg.apiUrl)) \o path
        n == httpNewRequest(c, "GET", reqUrl, FALSE)
    IN [ req |-> n.req,
         err |-> IF n.err # "" THEN "failed to create new request: " \o n.err ELSE "" ]

\* Client.NewRequest(ctx, path)
NewRequest(ctx, path) ==
    /\ Idle
    /\ client # Nil
    /\ LET n == buildRequest(ctx, path)
       IN /\ req' = n.req
          /\ ret' = n.err
    /\ emitted' = Printf(Deref(client).debug)
    /\ UNCHANGED <<client, frame, aside>>

\* the caller builds a request itself: http.NewRequest(method, url, body)
HttpNewRequest(raw) ==
    /\ Idle
    /\ LET n == httpNewRequest(Background, raw.method, raw.url, raw.body)
       IN /\ req' = n.req
          /\ ret' = n.err
    /\ emitted' = 0
    /\ UNCHANGED <<client, frame, aside>>

\* Client.Do(req), up to the validation of the request
Do ==
    /\ Idle
    /\ client # Nil
    /\ req # Nil
    /\ IF validRequest(Deref(req)) # ""
       THEN /\ out' = [ r |-> <<>>,
                        err |-> "opentransport: invalid http request: " \o validRequest(Deref(req)),
                        n |-> -1 ]
            /\ pc' = "done"
       ELSE /\ out' = NoOut
            /\ pc' = "pause"
    /\ ret' = ""
    /\ emitted' = 0
    /\ UNCHANGED <<client, req, pause, attempts, fres, exchanges, pauses, last, slept,
                   cancelledAt, svc, parsed, result, aside>>

\* Do: pause := time.Duration(c.cfg.maxRetryPause) * time.Second
DoPause ==
    /\ pc = "pause"
    /\ pause' = Cfg.maxRetryPause
    /\ pc' = "call"
    /\ emitted' = 0
    /\ UNCHANGED <<client, ret, req, attempts, fres, out, exchanges, pauses, last, slept,
                   cancelledAt, svc, parsed, result, aside>>

\* Do that takes a budget of zero for the default budget
DoRetry_zeroMeansDefault ==
    /\ pc = "call"
    /\ attempts' = IF Cfg.maxRetry = 0 THEN DefaultMaxRetry ELSE Cfg.maxRetry
    /\ pc' = "f"
    /\ emitted' = 0
    /\ UNCHANGED <<client, ret, req, pause, fres, out, exchanges, pauses, last, slept,
                   cancelledAt, svc, parsed, result, aside>>

\* Do: c.retry(c.cfg.maxRetry, pause, f)
DoRetry ==
    /\ pc = "call"
    /\ attempts' = Cfg.maxRetry
    /\ pc' = "f"
    /\ emitted' = 0
    /\ UNCHANGED <<client, ret, req, pause, fres, out, exchanges, pauses, last, slept,
                   cancelledAt, svc, parsed, result, aside>>

\* retry: r, err := f(), one exchange with outcome o, and the decision to retry
Exchange(o) ==
    /\ pc = "f"
    /\ (cancelledAt >= 0 /\ Deref(req).ctx # Deref(Background)) => o.status = 0
    /\ fres' = f(o)
    /\ last' = o
    /\ exchanges' = exchanges + 1
    /\ attempts' = IF f(o).err # "" THEN attempts - 1 ELSE attempts
    /\ IF retryAgain(attempts, f(o).err)
       THEN /\ pc' = "sleep"
            /\ emitted' = (IF o.status # 0 THEN Printf(Deref(client).debug) ELSE 0)
                          + Printf(Deref(client).error)
       ELSE /\ pc' = "ret"
            /\ emitted' = (IF o.status # 0 THEN Printf(Deref(client).debug) ELSE 0)
    /\ UNCHANGED <<client, ret, req, pause, out, pauses, slept, cancelledAt, svc, parsed,
                   result, aside>>

\* retry whose pause grows with the number of the retry
Sleep_backoff ==
    /\ pc = "sleep"
    /\ pauses' = pauses + 1
    /\ slept' = slept + pause * (pauses + 1)
    /\ pc' = "f"
    /\ emitted' = 0
    /\ UNCHANGED <<client, ret, req, pause, attempts, fres, out, exchanges, last, cancelledAt, svc,
                   parsed, result, aside>>

\* retry whose pause ends the call when the context of the request is cancelled
Sleep_untilCancelled ==
    /\ pc = "sleep"
    /\ IF cancelledAt >= 0 /\ Deref(req).ctx # Deref(Background)
       THEN /\ pc' = "ret"
            /\ UNCHANGED <<pauses, slept>>
       ELSE /\ pauses' = pauses + 1
            /\ slept' = slept + pause
            /\ pc' = "f"
    /\ emitted' = 0
    /\ UNCHANGED <<client, ret, req, pause, attempts, fres, out, exchanges, last, cancelledAt, svc,
                   parsed, result, aside>>

\* retry: time.Sleep(sleep); return c.retry(attempts, sleep, f)
Sleep ==
    /\ pc = "sleep"
    /\ pauses' = pauses + 1
    /\ slept' = slept + pause
    /\ pc' = "f"
    /\ emitted' = 0
    /\ UNCHANGED <<client, ret, req, pause, attempts, fres, out, exchanges, last, cancelledAt, svc,
                   parsed, result, aside>>

\* Do: the result of retry becomes the result of the call
DoReturn ==
    /\ pc = "ret"
    /\ out' = IF fres.err # ""
              THEN [ r |-> <<>>,
                     err |-> "failed to perform the http request after %d retries",
                     n |-> reportedRetries(Cfg) ]
              ELSE [ r |-> fres.r, err |-> "", n |-> -1 ]
    /\ pc' = "done"
    /\ emitted' = 0
    /\ UNCHANGED <<client, ret, req, pause, attempts, fres, exchanges, pauses, last, slept,
                   cancelledAt, svc, parsed, result, aside>>

\* LocationService.query wraps the errors of its stages; the other two services
\* return them as they are
Wrapped(s, prefix, err) == IF s = "Location" THEN prefix \o err ELSE err

\* XService.query(ctx, path), up to the validation of the request in Client.Do:
\* the test of the path, Client.NewRequest and Do's validRequest
Query(s, ctx, path) ==
    /\ Idle
    /\ client # Nil
    /\ svc' = s
    /\ IF Len(path) = 0
       THEN /\ req' = Nil
            /\ result' = [ res |-> Nil, err |-> "the request path can not be empty" ]
            /\ out' = NoOut
            /\ pc' = "done"
            /\ emitted' = 0
       ELSE \E n \in { buildRequest(ctx, path) } :
               /\ emitted' = Printf(Deref(client).debug)
               /\ IF n.err # ""
                  THEN /\ req' = Nil
                       /\ result' = [ res |-> Nil,
                                      err |-> Wrapped(s, "failed to create location request: ",
                                                      n.err) ]
                       /\ out' = NoOut
                       /\ pc' = "done"
                  ELSE \E e \in { validRequest(Deref(n.req)) } :
                          /\ req' = n.req
                          /\ result' = NoQueryResult
                          /\ IF e # ""
                             THEN /\ out' = [ r |-> <<>>,
                                              err |-> "opentransport: invalid http request: " \o e,
                                              n |-> -1 ]
                                  /\ pc' = "done"
                             ELSE /\ out' = NoOut
                                  /\ pc' = "pause"
    /\ ret' = ""
    /\ UNCHANGED <<client, pause, attempts, fres, exchanges, pauses, last, slept, cancelledAt,
                   parsed,
                   aside>>

\* XService.query that hands back what parseResponse returned, result and error
\* together, for every service
QueryReturn_returnsDecoderPair ==
    /\ pc = "done"
    /\ svc # ""
    /\ result = NoQueryResult
    /\ IF out.err # ""
       THEN /\ result' = [ res |-> Nil,
                           err |-> Wrapped(svc, "failed to proceed request: ", out.err) ]
            /\ emitted' = 0
            /\ UNCHANGED parsed
       ELSE \E p \in { parseResponse(svc, out.r, Deref(client).debug) } :
               /\ parsed' = [ res |-> p.res, err |-> p.err ]
               /\ result' = [ res |-> p.res, err |-> p.err ]
               /\ emitted' = p.logged
    /\ UNCHANGED <<client, ret, req, pc, pause, attempts, fres, out, exchanges, pauses, last, slept,
                   cancelledAt, svc, aside>>

\* XService.query after Client.Do returned: the error of Do, or parseResponse on
\* the bytes Do returned
QueryReturn ==
    /\ pc = "done"
    /\ svc # ""
    /\ result = NoQueryResult
    /\ IF out.err # ""
       THEN /\ result' = [ res |-> Nil,
                           err |-> Wrapped(svc, "failed to proceed request: ", out.err) ]
            /\ emitted' = 0
            /\ UNCHANGED parsed
       ELSE \E p \in { parseResponse(svc, out.r, Deref(client).debug) } :
               /\ parsed' = [ res |-> p.res, err |-> p.err ]
               /\ result' = IF p.err # ""
                            THEN [ res |-> Nil,
                                   err |-> Wrapped(svc, "failed to parse location response: ",
                                                   p.err) ]
                            ELSE [ res |-> IF svc = "Location"
                                           THEN Ptr(Deref(p.res).list)
                                           ELSE p.res,
                                   err |-> "" ]
               /\ emitted' = p.logged
    /\ UNCHANGED <<client, ret, req, pc, pause, attempts, fres, out, exchanges, pauses, last, slept,
                   cancelledAt, svc, aside>>

\* the caller has taken the result of Do or of the query: the frame of the call is gone
Consume ==
    /\ pc = "done"
    /\ svc # "" => result # NoQueryResult
    /\ pc' = "idle"
    /\ pause' = 0
    /\ attempts' = 0
    /\ fres' = NoResult
    /\ out' = NoOut
    /\ exchanges' = 0
    /\ pauses' = 0
    /\ last' = NoOutcome
    /\ slept' = 0
    /\ cancelledAt' = IF cancelledAt >= 0 THEN 0 ELSE -1
    /\ svc' = ""
    /\ parsed' = NoQueryResult
    /\ result' = NoQueryResult
    /\ emitted' = 0
    /\ UNCHANGED <<client, ret, req, aside>>

Next ==
    \/ NewClient
    \/ \E u \in UrlInputs : NewClientWithUrl(u)
    \/ \E cfg \in ConfigInputs : newClientWithConfig(cfg)
    \/ \E w \in { Nil, Ptr("Writer") } : EnableLogs(w)
    \/ \E ua \in UserAgentInputs : UserAgent(ua)
    \/ \E a \in AttemptInputs, p \in PauseInputs : MaxRetry(a, p)
    \/ \E ctx \in CtxInputs, path \in PathInputs : NewRequest(ctx, path)
    \/ \E raw \in RawRequestInputs : HttpNewRequest(raw)
    \/ \E s \in Services, ctx \in CtxInputs, path \in QueryPathInputs : Query(s, ctx, path)
    \/ Do
    \/ DoPause
    \/ DoRetry
    \/ \E o \in Outcomes : Exchange(o)
    \/ Sleep
    \/ DoReturn
    \/ QueryReturn
    \/ Consume

Spec == Init /\ [][Next]_vars

-----------------------------------------------------------------------------
(* The searches of the three services: each builds its request path and      *)
(* hands it to the query of its service, or returns the error of its builder *)

\* a search returns the error of its builder; no query is made
Rejected(s, err) ==
    /\ Idle
    /\ client # Nil
    /\ svc' = s
    /\ req' = Nil
    /\ result' = [ res |-> Nil, err |-> err ]
    /\ out' = NoOut
    /\ pc' = "done"
    /\ ret' = ""
    /\ emitted' = 0
    /\ UNCHANGED <<client, pause, attempts, fres, exchanges, pauses, last, slept, cancelledAt,
                   parsed, aside>>

\* LocationService.Search with the type station in the place of TypeAll
LocationSearch_typeStation(ctx, name) == Query("Location", ctx, locationPath(name, TypeStation))

\* LocationService.SearchWithType(ctx, name, locationType)
LocationSearchWithType(ctx, name, locationType) ==
    Query("Location", ctx, locationPath(name, locationType))

\* LocationService.Search(ctx, name)
LocationSearch(ctx, name) == LocationSearchWithType(ctx, name, TypeAll)

\* LocationService.SearchWithCoordinates(ctx, lat, long)
LocationSearchWithCoordinates(ctx, lat, long) ==
    Query("Location", ctx, coordinatesPath(lat, long))

\* ConnectionService.SearchWithOpts(ctx, from, to, date, opts)
ConnectionSearchWithOpts(ctx, from, to, date, opts) ==
    \E b \in { connSearchPath(from, to, date, opts, connFormatDate(date)) } :
        IF b.err # "" THEN Rejected("Connection", b.err) ELSE Query("Connection", ctx, b.path)

\* ConnectionService.Search(ctx, from, to, date)
ConnectionSearch(ctx, from, to, date) ==
    ConnectionSearchWithOpts(ctx, from, to, date, ZeroConnOpts)

\* ConnectionService.SearchVia(ctx, from, to, date, via)
ConnectionSearchVia(ctx, from, to, date, via) ==
    ConnectionSearchWithOpts(ctx, from, to, date, [ ZeroConnOpts EXCEPT !.Via = via ])

\* StationboardService.SearchWithOpts that asks the server before it looks at its input
StationboardSearchWithOpts_queriesFirst(ctx, name, opts) ==
    \E b \in { stbBuildUrlPath(name, opts) } :
        Query("Stationboard", ctx, IF b.err # "" THEN Chars("stationboard?") ELSE b.path)

\* StationboardService.SearchWithOpts(ctx, name, opts)
StationboardSearchWithOpts(ctx, name, opts) ==
    \E b \in { stbBuildUrlPath(name, opts) } :
        IF b.err # "" THEN Rejected("Stationboard", b.err)
        ELSE Query("Stationboard", ctx, b.path)

\* StationboardService.Search(ctx, name): the date is time.Now(), which is not zero
StationboardSearch(ctx, name) ==
    \E now \in GoodDates :
        StationboardSearchWithOpts(ctx, name, [ Transportations |-> << >>, DateTime |-> now,
                                                Arrival |-> FALSE, Limit |-> 15 ])

\* StationboardService.SearchWithDate(ctx, name, date)
StationboardSearchWithDate(ctx, name, date) ==
    StationboardSearchWithOpts(ctx, name, [ Transportations |-> << >>, DateTime |-> date,
                                            Arrival |-> FALSE, Limit |-> 15 ])

\* StationboardService.SearchWithType(ctx, name, date, transportations)
StationboardSearchWithType(ctx, name, date, transportations) ==
    IF Len(transportations) = 0
    THEN Rejected("Stationboard",
                  "transportation filter is empty (use SearchWithDate() instead)")
    ELSE StationboardSearchWithOpts(ctx, name,
                                    [ Transportations |-> transportations, DateTime |-> date,
                                      Arrival |-> FALSE, Limit |-> 15 ])

\* the searches, the requests built by hand and the calls of Do, on a client made
\* with its defaults or with a URL
NextSearch ==
    \/ NewClient
    \/ \E u \in SearchUrlInputs : NewClientWithUrl(u)
    \/ \E ctx \in CtxInputs, path \in SearchPathInputs : NewRequest(ctx, path)
    \/ \E ctx \in CtxInputs, name \in { << "z" >>, << "a"," ","b" >> } :
          LocationSearch(ctx, name)
    \/ \E name \in { << "z" >>, << "a"," ","b" >> }, t \in LocationTypeInputs :
          LocationSearchWithType(Background, name, t)
    \/ \E c \in CoordinateInputs : LocationSearchWithCoordinates(Background, c[1], c[2])
    \/ \E date \in DateInputs :
          ConnectionSearch(Background, << "z" >>, << "a"," ","b" >>, date)
    \/ \E date \in GoodDates, via \in ViaInputs :
          ConnectionSearchVia(Background, << "z" >>, << "a"," ","b" >>, date, via)
    \/ \E date \in GoodDates, opts \in ConnOptsInputs :
          ConnectionSearchWithOpts(Background, << "z" >>, << >>, date, opts)
    \/ \E name \in NameInputs : StationboardSearch(Background, name)
    \/ \E date \in DateInputs : StationboardSearchWithDate(Background, << "z" >>, date)
    \/ \E date \in GoodDates, t \in TransportationInputs :
          StationboardSearchWithType(Background, << "z" >>, date, t)
    \/ \E opts \in StbOptsInputs : StationboardSearchWithOpts(Background, << "z" >>, opts)
    \/ \E s \in Services, path \in { << >> } : Query(s, Background, path)
    \/ Do
    \/ DoPause
    \/ DoRetry
    \/ \E o \in SearchOutcomes : Exchange(o)
    \/ Sleep
    \/ DoReturn
    \/ QueryReturn
    \/ Consume

SpecSearch == Init /\ [][NextSearch]_vars

-----------------------------------------------------------------------------
(* The isoDate codec as a state machine: a timestamp field arrives as bytes, *)
(* or as the encoding of a time, and is decoded into a new isoDate.          *)

\* the JSON decoder hands the bytes of a timestamp field to the codec
Receive(raw) ==
    /\ isoPc = "new"
    /\ isoRaw' = raw
    /\ isoPc' = "wire"
    /\ UNCHANGED <<program, conv, race, isoSource, isoValue, isoErr>>

\* json.Marshal of an isoDate: time.Time.MarshalJSON
MarshalJSON(t) ==
    /\ isoPc = "new"
    /\ isoSource' = Ptr(t)
    /\ isoRaw' = marshalJSON(t).b
    /\ isoErr' = marshalJSON(t).err
    /\ isoPc' = IF marshalJSON(t).err = "" THEN "wire" ELSE "decoded"
    /\ UNCHANGED <<program, conv, race, isoValue>>

\* (d *isoDate).UnmarshalJSON(raw)
UnmarshalJSON ==
    /\ isoPc = "wire"
    /\ \E u \in { unmarshalJSON(isoValue, isoRaw) } :
           /\ isoValue' = u.d
           /\ isoErr' = u.err
    /\ isoPc' = "decoded"
    /\ UNCHANGED <<program, conv, race, isoSource, isoRaw>>

NextCodec ==
    \/ \E raw \in WireInputs : Receive(raw)
    \/ \E t \in TimeInputs : MarshalJSON(t)
    \/ UnmarshalJSON

SpecCodec == Init /\ [][NextCodec]_vars

-----------------------------------------------------------------------------
(* Properties of the retrying executor, Client.Do / Client.retry *)

RetriesExhausted == "failed to perform the http request after %d retries"

PassThrough(o) == o.status > 0 /\ o.status # 200 /\ o.status < 500

\* C1: a Do call on a valid request whose every exchange has a retryable outcome
\* makes exactly maxRetryAttempts + 1 exchanges and then returns an error.  (A call
\* ends with the retries-exhausted error exactly when all its exchanges were
\* retryable.)
C1_ExchangesAreRetriesPlusOne ==
    (pc = "done" /\ out.err = RetriesExhausted) => exchanges = Cfg.maxRetry + 1

\* C2: when Do fails because the retry budget is exhausted, the count in the returned
\* error equals the number of exchanges made during the call.
C2_ReportedCountIsExchanges ==
    (pc = "done" /\ out.err = RetriesExhausted) => out.n = exchanges

C4_Every200EndsCall ==
    last.status = 200 =>
        /\ pc \in { "ret", "done" }
        /\ fres = [ r |-> last.body, err |-> "" ]
        /\ pc = "done" => (out.r = last.body /\ out.err = "")

\* C4 amended: an exchange answering HTTP 200 whose body is read without error ends
\* the call (no later attempt, no pause), and that body is returned with no error,
\* also after earlier retryable attempts.
C4_Read200EndsCall ==
    (last.status = 200 /\ ~last.readErr) =>
        /\ pc \in { "ret", "done" }
        /\ fres = [ r |-> last.body, err |-> "" ]
        /\ pc = "done" => (out.r = last.body /\ out.err = "")

\* C4 witness: 200 with a non-empty body on a later attempt, budget remaining
C4_Witness ==
    /\ pc = "done"
    /\ last.status = 200
    /\ exchanges >= 2
    /\ attempts >= 2
    /\ Len(out.r) > 0
    /\ out.err = ""

\* the four rules of a valid request
InvalidRequest(r) ==
    r.Method # "GET" \/ r.Body \/ r.URL.Scheme = <<>> \/ r.Host = <<>>

ValidationErrors ==
    { "the request has an invalid http method",
      "the request should not contain a body",
      "a valid protocol scheme should be defined",
      "a valid host should be defined" }

\* C5: Do on a request that fails validation returns a wrapped validation error at
\* once: no exchange, no pause, the retry budget is never loaded.
C5_InvalidRequestNoExchange ==
    (req # Nil /\ InvalidRequest(Deref(req))) =>
        /\ pc \in { "idle", "done" }
        /\ exchanges = 0
        /\ pauses = 0
        /\ attempts = 0
        /\ pc = "done" =>
              /\ out.err \in { "opentransport: invalid http request: " \o e :
                                 e \in ValidationErrors }
              /\ Len(out.r) = 0

\* C5 witness: Do has rejected a GET request that carries a body
C5_Witness ==
    /\ pc = "done"
    /\ req # Nil
    /\ Deref(req).Body
    /\ out.err = "opentransport: invalid http request: the request should not contain a body"

-----------------------------------------------------------------------------
(* Properties of the client configuration and of request building *)

\* a valid live configuration
ValidConfig(c) ==
    /\ c.apiUrl # Nil
    /\ Deref(c.apiUrl).Scheme # <<>>
    /\ Deref(c.apiUrl).Host # <<>>
    /\ Len(Deref(c.apiUrl).Path) > 0
    /\ Deref(c.apiUrl).Path[Len(Deref(c.apiUrl).Path)] = "/"
    /\ c.userAgent # ""
    /\ c.maxRetry \in 0..10
    /\ c.maxRetryPause >= 1

\* C6: after any sequence of constructor, UserAgent and MaxRetry calls, accepted or
\* rejected, a live client holds a valid configuration: base URL with scheme, host
\* and a path ending in '/', non-empty user agent, maxRetry in [0,10], pause >= 1.
C6_LiveConfigIsValid == client # Nil => ValidConfig(Cfg)

\* C6 witness: a client that went through an accepted UserAgent, an accepted
\* MaxRetry and then a rejected MaxRetry
C6_Witness ==
    /\ client # Nil
    /\ Cfg.userAgent = "Testing"
    /\ Cfg.maxRetry = 7
    /\ ret = "failed to configure retry options: please provide a max retry between 0 and 10"

\* C7: MaxRetry(attempts, pause) with attempts outside [0,10] or pause < 1 returns an
\* error and leaves the whole client as it was; with in-range values it returns no
\* error, sets maxRetry and maxRetryPause to the given values and changes nothing else.
C7_MaxRetryAllOrNothing ==
    [][ \A a \in AttemptInputs, p \in PauseInputs :
          MaxRetry(a, p) =>
             IF a >= 0 /\ a <= 10 /\ p >= 1
             THEN /\ ret' = ""
                  /\ Deref(client').cfg.maxRetry = a
                  /\ Deref(client').cfg.maxRetryPause = p
                  /\ Deref(client').cfg.apiUrl = Cfg.apiUrl
                  /\ Deref(client').cfg.userAgent = Cfg.userAgent
                  /\ Deref(client').debug = Deref(client).debug
                  /\ Deref(client').error = Deref(client).error
             ELSE /\ ret' # ""
                  /\ client' = client ]_vars

\* C7 witness: a MaxRetry call was rejected for its pause on a client whose retry
\* policy an earlier call had set
C7_Witness ==
    /\ client # Nil
    /\ Cfg.maxRetry = 2
    /\ Cfg.maxRetryPause = 1
    /\ ret = "failed to configure retry options: please provide a max retry pause more than 1 seconds"

\* C8: every request built by Client.NewRequest carries, in its header and on the
\* wire, the user agent the client is configured with at that moment.
C8_RequestCarriesUserAgent ==
    [][ \A ctx \in CtxInputs, path \in PathInputs :
          (NewRequest(ctx, path) /\ req' # Nil) =>
             /\ Deref(req').UserAgent = Cfg.userAgent
             /\ WireUserAgent(Deref(req')) = Cfg.userAgent ]_vars

\* C9: validRequest accepts a request if and only if its method is GET, it has no
\* body, its URL scheme is non-empty and its host is non-empty; the error of a
\* rejected request names a rule the request violates.
C9_ValidRequestIff ==
    req # Nil =>
        LET r == Deref(req)
            e == validRequest(r)
        IN /\ e = "" <=> (r.Method = "GET" /\ ~r.Body /\ r.URL.Scheme # <<>> /\ r.Host # <<>>)
           /\ e = "the request has an invalid http method" => r.Method # "GET"
           /\ e = "the request should not contain a body" => r.Body
           /\ e = "a valid protocol scheme should be defined" => r.URL.Scheme = <<>>
           /\ e = "a valid host should be defined" => r.Host = <<>>
           /\ e \in ValidationErrors \cup { "" }

\* C9 witness: a GET request without body, with a scheme and without host, which Do
\* rejected for its host
C9_Witness ==
    /\ req # Nil
    /\ Deref(req).Method = "GET"
    /\ ~Deref(req).Body
    /\ Deref(req).URL.Scheme # <<>>
    /\ Deref(req).Host = <<>>
    /\ pc = "done"
    /\ out.err = "opentransport: invalid http request: a valid host should be defined"

\* the rules a *clientConfig violates, each named by the error text of the rule
Violations(cfg) ==
    IF cfg = Nil THEN { "client config cannot be nil" }
    ELSE LET c == Deref(cfg) IN
         (IF c.apiUrl = Nil THEN { "please provide a api url" } ELSE {})
         \cup (IF c.apiUrl # Nil /\ Deref(c.apiUrl).Host = <<>>
               THEN { "please provide a valid api url host" } ELSE {})
         \cup (IF c.apiUrl # Nil /\ Deref(c.apiUrl).Scheme = <<>>
               THEN { "please provide a valid api url scheme" } ELSE {})
         \cup (IF c.maxRetry < 0 \/ c.maxRetry > 10
               THEN { "please provide a max retry between 0 and 10" } ELSE {})
         \cup (IF c.maxRetryPause < 1
               THEN { "please provide a max retry pause more than 1 seconds" } ELSE {})

\* a custom URL that is empty, unparsable, scheme-less or host-less
BadUrl(u) ==
    \/ u = <<>>
    \/ Parse(u).err # ""
    \/ Parse(u).url.Scheme = <<>>
    \/ Parse(u).url.Host = <<>>

\* C10: construction from a configuration that violates exactly one rule fails with
\* the error of that rule and returns no client; NewClientWithUrl with an empty,
\* unparsable, scheme-less or host-less URL returns an error and a nil client.
C10_OneViolationIsNamed ==
    [][ /\ \A cfg \in ConfigInputs :
             (newClientWithConfig(cfg) /\ Cardinality(Violations(cfg)) = 1) =>
                /\ client' = Nil
                /\ \E e \in Violations(cfg) :
                      ret' = "opentransport: invalid client config: " \o e
        /\ \A u \in UrlInputs :
             (NewClientWithUrl(u) /\ BadUrl(u)) => (client' = Nil /\ ret' # "") ]_vars

\* C10 witness: construction was refused for a missing URL scheme
C10_Witness ==
    /\ client = Nil
    /\ ret = "opentransport: invalid client config: please provide a valid api url scheme"

-----------------------------------------------------------------------------
(* Properties of construction and of the configuration operations *)

\* a *clientConfig value that satisfies every rule of validClientConfig
ValidInput(c) ==
    /\ c.apiUrl # Nil
    /\ Deref(c.apiUrl).Scheme # <<>>
    /\ Deref(c.apiUrl).Host # <<>>
    /\ c.maxRetry \in 0..10
    /\ c.maxRetryPause >= 1

\* a path with one '/' appended unless it ends in '/'
Slashed(path) == IF HasSuffix(path, <<"/">>) THEN path ELSE path \o <<"/">>

\* what NewClient() yields
NewClientYieldsDefaults ==
    NewClient =>
        /\ client' # Nil
        /\ String(Deref(Deref(client').cfg.apiUrl)) = DefaultApiURL
        /\ Deref(client').cfg.userAgent = DefaultUserAgent
        /\ Deref(client').cfg.maxRetry = DefaultMaxRetry
        /\ Deref(client').cfg.maxRetryPause = DefaultRetryPause

\* C11 as claimed: for every valid configuration construction succeeds and the
\* client's effective configuration equals the input, except that an empty user
\* agent is replaced by the default one; NewClient() yields the defaults.
C11_EffectiveConfigIsInput ==
    [][ /\ \A cfg \in ConfigInputs :
             (newClientWithConfig(cfg) /\ cfg # Nil /\ ValidInput(Deref(cfg))) =>
                /\ client' # Nil
                /\ ret' = ""
                /\ Deref(client').cfg =
                      [ Deref(cfg) EXCEPT !.userAgent = IF @ = "" THEN DefaultUserAgent ELSE @ ]
        /\ NewClientYieldsDefaults ]_vars

\* C11 amended: for every valid configuration construction succeeds and the
\* client's effective configuration is the input with an empty user agent replaced
\* by the default one and with '/' appended to a URL path that does not end in '/';
\* NewClient() yields the default API URL, user agent and retry policy.
C11_EffectiveConfigIsNormalisedInput ==
    [][ /\ \A cfg \in ConfigInputs :
             (newClientWithConfig(cfg) /\ cfg # Nil /\ ValidInput(Deref(cfg))) =>
                /\ client' # Nil
                /\ ret' = ""
                /\ Deref(client').cfg =
                      [ Deref(cfg) EXCEPT
                          !.userAgent = IF @ = "" THEN DefaultUserAgent ELSE @,
                          !.apiUrl = Ptr([ Deref(@) EXCEPT !.Path = Slashed(@) ]) ]
        /\ NewClientYieldsDefaults ]_vars

\* C11 witness: a client fresh from a valid configuration that had no user agent
C11_Witness ==
    /\ client # Nil
    /\ ret = ""
    /\ req = Nil
    /\ Cfg.userAgent = DefaultUserAgent
    /\ Cfg.maxRetry = DefaultMaxRetry - 1
    /\ Cfg.maxRetryPause = MinRetryPause
    /\ Deref(Cfg.apiUrl).Host = << "l",":","3","0","0","1" >>
    /\ Deref(client).debug = "Discard"

\* the last character of a string is '/'
EndsInSlash(str) == Len(str) > 0 /\ str[Len(str)] = "/"

\* the URL of the live client after a step, and what a second normalisation makes of it
NormalisedAgain ==
    Deref(Deref(buildClient(Ptr(Deref(client').cfg)).client).cfg.apiUrl)

PathNormalised(given) ==
    LET live == Deref(Deref(client').cfg.apiUrl) IN
    /\ EndsInSlash(live.Path)
    /\ IF EndsInSlash(given.Path)
       THEN live.Path = given.Path
       ELSE live.Path = given.Path \o <<"/">>
    /\ [ live EXCEPT !.Path = <<>> ] = [ given EXCEPT !.Path = <<>> ]
    /\ given.RawQuery = <<>> => EndsInSlash(String(live))
    /\ NormalisedAgain = live

C13_UserAgentSetsOnlyUserAgent ==
    [][ \A v \in UserAgentInputs :
          UserAgent(v) =>
             /\ v # "" => Deref(client').cfg.userAgent = v
             /\ v = "" => Deref(client').cfg.userAgent = DefaultUserAgent
             /\ Deref(client').cfg.apiUrl = Cfg.apiUrl
             /\ Deref(client').cfg.maxRetry = Cfg.maxRetry
             /\ Deref(client').cfg.maxRetryPause = Cfg.maxRetryPause
             /\ Deref(client').debug = Deref(client).debug
             /\ Deref(client').error = Deref(client).error ]_vars

\* C13 witness: a custom user agent on a client whose retry policy and sinks had
\* been set before
C13_Witness ==
    /\ client # Nil
    /\ Cfg.userAgent = "Testing"
    /\ Cfg.maxRetry = RetryLimit
    /\ Cfg.maxRetryPause = MinRetryPause
    /\ Deref(client).debug = "Writer"
    /\ Deref(client).error = "Writer"
    /\ ret = ""
    /\ emitted = 0

-----------------------------------------------------------------------------
(* Properties of logging *)

\* both sinks of the live client discard their input
LogsDisabled ==
    /\ Deref(client).debug = "Discard"
    /\ Deref(client).error = "Discard"

\* C14: logging is disabled by default.  Construction installs two sinks that
\* discard their input, no operation other than EnableLogs changes a sink, and
\* while the sinks discard, no step of any operation (NewRequest, Do and its
\* retries, the queries of the three services with their decoders) writes a log
\* record to an observable output.
C14_NoLogsBeforeEnableLogs ==
    [][ /\ (client = Nil /\ client' # Nil) =>
              (Deref(client').debug = "Discard" /\ Deref(client').error = "Discard")
        /\ (client # Nil /\ ~(\E w \in { Nil, Ptr("Writer") } : EnableLogs(w))) =>
              /\ client' # Nil
              /\ Deref(client').debug = Deref(client).debug
              /\ Deref(client').error = Deref(client).error
              /\ LogsDisabled => emitted' = 0 ]_vars

\* C14 witness: a Location query on a client with discarding sinks has built its
\* request, got a 500 and is about to retry, and nothing was written
C14_Witness ==
    /\ client # Nil
    /\ LogsDisabled
    /\ svc = "Location"
    /\ pc = "sleep"
    /\ last.status = StatusInternalServerError
    /\ emitted = 0

\* the sinks EnableLogs(w) redirects to
DebugTarget(w) == IF w # Nil THEN Deref(w) ELSE "Stdout"
ErrorTarget(w) == IF w # Nil THEN Deref(w) ELSE "Stderr"

\* C15: each EnableLogs(out) call redirects both the debug and the error sink to out
\* (to standard output and standard error when out is nil), emits exactly one
\* informational record and changes nothing else; a call with the sink the client
\* already logs to leaves the client as it was, its record being the only effect.
C15_EnableLogsRedirectsBoth ==
    [][ \A w \in { Nil, Ptr("Writer") } :
          EnableLogs(w) =>
             /\ Deref(client').debug = DebugTarget(w)
             /\ Deref(client').error = ErrorTarget(w)
             /\ Deref(client').cfg = Cfg
             /\ emitted' = 1
             /\ (Deref(client).debug = DebugTarget(w) /\ Deref(client).error = ErrorTarget(w))
                   => client' = client ]_vars

\* C15 witness: EnableLogs(nil) on a client that logged to a writer before: the
\* sinks are standard output and standard error, one record was written
C15_Witness ==
    /\ client # Nil
    /\ Deref(client).debug = "Stdout"
    /\ Deref(client).error = "Stderr"
    /\ emitted = 1
    /\ pc = "idle"
    /\ req = Nil

-----------------------------------------------------------------------------
(* Properties of the decoders and of the queries *)

\* the errors json.Unmarshal has for a document that is not well-formed
SyntaxErrors == { "invalid character", "unexpected end of JSON input" }

\* parseResponse has returned, for the bytes out.r that Do handed to the query
Decoded == svc # "" /\ pc = "done" /\ parsed # NoQueryResult

\* C16: each of the three decoders returns, for a zero-length input, the
\* empty-payload error and no result, and for a non-empty input that is not
\* well-formed JSON an error that starts with "failed to parse response", is not
\* the empty-payload error, and comes with no result.
C16_DecodersRejectBadPayload ==
    Decoded =>
        /\ Len(out.r) = 0 => parsed = [ res |-> Nil, err |-> EmptyPayload ]
        /\ (Len(out.r) > 0 /\ ~scanDocument(out.r).ok) =>
              /\ parsed.res = Nil
              /\ parsed.err \in { "failed to parse response: " \o e : e \in SyntaxErrors }

\* the error a query returns when its decoder rejected a zero-length payload
EmptyPayloadOf(s) ==
    IF s = "Location" THEN "failed to parse location response: " \o EmptyPayload
    ELSE EmptyPayload

\* C20: in a query of any of the three services, an exchange answered with a status
\* that is neither 200 nor >= 500 is the last one of the query (it is not retried;
\* it is the only exchange when it answers the first attempt), and the query
\* returns the decoder's empty-payload error and a nil result, never a successful
\* empty result.
C20_PassThroughFailsTheSearch ==
    (svc # "" /\ PassThrough(last)) =>
        /\ pc \in { "ret", "done" }
        /\ exchanges = pauses + 1
        /\ pauses = 0 => exchanges = 1
        /\ result # NoQueryResult =>
              /\ result.res = Nil
              /\ result.err = EmptyPayloadOf(svc)
              /\ parsed = [ res |-> Nil, err |-> EmptyPayload ]

\* C20 witness: a Location query answered 429 has returned after one exchange
C20_Witness ==
    /\ svc = "Location"
    /\ pc = "done"
    /\ last.status = 429
    /\ exchanges = 1
    /\ pauses = 0
    /\ result.res = Nil
    /\ result.err = "failed to parse location response: response buffer is empty"

-----------------------------------------------------------------------------
(* Properties of the isoDate codec *)

Quote == "\""

\* s is YYYY-MM-DDTHH:MM:SS followed by Z or by a sign and HHMM, and names a
\* time of day and a day that exist
MatchesLayout(s) ==
    /\ Len(s) \in { 20, 24 }
    /\ \A i \in { 1, 2, 3, 4, 6, 7, 9, 10, 12, 13, 15, 16, 18, 19 } : s[i] \in Digits
    /\ s[5] = "-" /\ s[8] = "-" /\ s[11] = "T" /\ s[14] = ":" /\ s[17] = ":"
    /\ \/ Len(s) = 20 /\ s[20] = "Z"
       \/ Len(s) = 24 /\ s[20] \in { "+", "-" } /\ \A i \in 21..24 : s[i] \in Digits
    /\ atoi(SubSeq(s, 6, 7)) \in 1..12
    /\ atoi(SubSeq(s, 9, 10)) \in 1..daysIn(atoi(SubSeq(s, 6, 7)), atoi(SubSeq(s, 1, 4)))
    /\ atoi(SubSeq(s, 12, 13)) < 24
    /\ atoi(SubSeq(s, 15, 16)) < 60
    /\ atoi(SubSeq(s, 18, 19)) < 60

\* raw is a quoted string whose content matches the layout
QuotedTimestamp(raw) ==
    /\ Len(raw) >= 2
    /\ raw[1] = Quote
    /\ raw[Len(raw)] = Quote
    /\ MatchesLayout(SubSeq(raw, 2, Len(raw) - 1))

\* C17: isoDate.UnmarshalJSON returns an error for every wire value that is not
\* empty, is not the null token and is not a quoted string matching the layout
\* YYYY-MM-DDTHH:MM:SSZHHMM, so no malformed value is taken as absent or present.
C17_MalformedIsRejected ==
    (isoPc = "decoded" /\ Len(isoRaw) > 0 /\ isoRaw # NullToken /\ ~QuotedTimestamp(isoRaw))
        => isoErr # ""

\* C18: decoding the null token or an empty string into an isoDate returns no
\* error and yields the absent value, the zero time.Time.
C18_NullAndEmptyAreAbsent ==
    (isoPc = "decoded" /\ isoRaw \in { NullToken, << >>, << Quote, Quote >> })
        => /\ isoErr = ""
           /\ isoValue = ZeroTime

\* C19: for every present isoDate, encoding it to its JSON form and decoding that
\* form with isoDate.UnmarshalJSON returns no error and yields the original instant.
C19_RoundTripKeepsInstant ==
    (isoPc = "decoded" /\ isoSource # Nil)
        => /\ isoErr = ""
           /\ Instant(isoValue) = Instant(Deref(isoSource))

-----------------------------------------------------------------------------
(* Client.Do under a retry policy set with MaxRetry, with a caller that may   *)
(* cancel the context it gave to Client.NewRequest.  Neither retry nor the   *)
(* closure of Do looks at the context: only c.httpClient.Do(req) does, and    *)
(* it fails once the context is cancelled.  time.Sleep returns after its     *)
(* duration whatever happens to the context.                                 *)

\* the caller cancels the context (once cancelled, a context stays cancelled)
Cancel ==
    /\ cancelledAt = -1
    /\ cancelledAt' = exchanges
    /\ emitted' = 0
    /\ UNCHANGED <<client, ret, req, pc, pause, attempts, fres, out, exchanges, pauses, last,
                   slept, svc, parsed, result, aside>>

NextDo ==
    \/ NewClient
    \/ \E a \in AttemptInputs, p \in PauseInputs : MaxRetry(a, p)
    \/ \E ctx \in CtxInputs, path \in PathInputs : NewRequest(ctx, path)
    \/ Do
    \/ DoPause
    \/ DoRetry
    \/ \E o \in Outcomes : Exchange(o)
    \/ Sleep
    \/ DoReturn
    \/ Cancel
    \/ Consume

\* a call of Do goes on: the statements of Do and of retry are executed, the
\* exchange returns and time.Sleep returns
FairDo ==
    /\ WF_vars(DoPause)
    /\ WF_vars(DoRetry)
    /\ WF_vars(\E o \in Outcomes : Exchange(o))
    /\ WF_vars(Sleep)
    /\ WF_vars(DoReturn)

SpecDo == Init /\ [][NextDo]_vars /\ FairDo

-----------------------------------------------------------------------------
(* Client.MaxRetry called from another goroutine while Client.Do runs.  The   *)
(* two fields of c.cfg are written by MaxRetry and read by Do without any    *)
(* synchronisation: each write and each read is a step of its own, and the   *)
(* two writes, which nothing orders for the reader, happen in either order.  *)

\* MaxRetry(a, p) up to its two assignments: validRetry
MaxRetryCall(a, p) ==
    /\ client # Nil
    /\ mpc = "idle"
    /\ IF validRetry(a, p) # ""
       THEN UNCHANGED <<mpc, margs>>
       ELSE /\ mpc' = "both"
            /\ margs' = << a, p >>
    /\ UNCHANGED <<program, codec, conv, policies>>

\* MaxRetry: c.cfg.maxRetry = attempts
StoreMaxRetry ==
    /\ mpc \in { "both", "attempts" }
    /\ client' = [ client EXCEPT ![1].cfg.maxRetry = margs[1] ]
    /\ mpc' = IF mpc = "both" THEN "pause" ELSE "idle"
    /\ policies' = IF mpc = "both" THEN policies ELSE policies \cup { margs }
    /\ UNCHANGED <<ret, req, frame, emitted, codec, conv, margs>>

\* MaxRetry: c.cfg.maxRetryPause = pause
StoreMaxRetryPause ==
    /\ mpc \in { "both", "pause" }
    /\ client' = [ client EXCEPT ![1].cfg.maxRetryPause = margs[2] ]
    /\ mpc' = IF mpc = "both" THEN "attempts" ELSE "idle"
    /\ policies' = IF mpc = "both" THEN policies ELSE policies \cup { margs }
    /\ UNCHANGED <<ret, req, frame, emitted, codec, conv, margs>>

NextRace ==
    \/ NewClient
    \/ \E ctx \in CtxInputs, path \in PathInputs : NewRequest(ctx, path)
    \/ \E q \in RaceInputs : MaxRetryCall(q[1], q[2])
    \/ StoreMaxRetry
    \/ StoreMaxRetryPause
    \/ Do
    \/ DoPause
    \/ DoRetry
    \/ \E o \in Outcomes : Exchange(o)
    \/ Sleep
    \/ DoReturn
    \/ Consume

SpecRace == Init /\ [][NextRace]_vars

-----------------------------------------------------------------------------
(* convListParam on its own: one call after another *)

\* a builder calls convListParam(values, name)
Convert(values, name) ==
    /\ convIn' = Ptr([ values |-> values, name |-> name ])
    /\ convOut' = convListParam(values, name)
    /\ UNCHANGED <<program, codec, race>>

NextConv == \E values \in ListInputs, name \in ListNames : Convert(values, name)

SpecConv == Init /\ [][NextConv]_vars

-----------------------------------------------------------------------------
(* C21 *)

\* a search has returned
Returned == svc # "" /\ pc = "done" /\ result # NoQueryResult

\* the error of url.Parse as Client.NewRequest returns it
ConstructionError == "failed to create new request: net/url: invalid control character in URL"
ValidationError == "opentransport: invalid http request: a valid host should be defined"
TransportError == "failed to perform the http request after %d retries"

\* the texts a query puts in front of the error of a stage
StagePrefixes ==
    { "", "failed to create location request: ", "failed to proceed request: ",
      "failed to parse location response: " }

\* the returned error is the error of the stage, as it is or wrapped
Identifies(err, stageErr) == \E p \in StagePrefixes : err = p \o stageErr

\* the error of the stage that failed in the returned search, "" if none did:
\* validation and transport (the error of Do), the empty payload and the JSON parse
\* (the error of the decoder)
FailedStageError ==
    IF req = Nil THEN ""
    ELSE IF out.err # "" THEN out.err
    ELSE IF Len(out.r) = 0 THEN EmptyPayload
    ELSE parsed.err

\* C21: a search whose request was not built (the builder, the path test or
\* Client.NewRequest failed) returns a nil result and a non-nil error, the error
\* of url.Parse when the URL has a control byte; a search whose request was
\* refused by Do's validation, whose retries were exhausted, whose payload was
\* empty or whose payload did not parse returns a nil result and the error of
\* that stage, as it is or wrapped; so no failed stage gives a successful return.
C21_StageFailureIsSurfaced ==
    Returned =>
        /\ req = Nil => result.res = Nil /\ result.err # ""
        /\ (req # Nil /\ FailedStageError # "") =>
              /\ result.res = Nil
              /\ Identifies(result.err, FailedStageError)
        /\ (req # Nil /\ out.err # "") =>
              out.err \in { ValidationError, TransportError }
        /\ (svc # "Location" /\ result.err = "") => result.res # Nil

\* a Location search whose 200 reply did not parse: the decoder handed back a
\* result with its error, the search returns none
C21_Witness ==
    /\ Returned
    /\ svc = "Location"
    /\ Len(out.r) > 0
    /\ parsed.err # ""
    /\ parsed.res # Nil
    /\ result.res = Nil
    /\ result.err = "failed to parse location response: " \o parsed.err

\* the other stages fail in reachable states as well
C21_ConstructionFails == Returned /\ req = Nil /\ Identifies(result.err, ConstructionError)
C21_ValidationFails == Returned /\ req # Nil /\ Identifies(result.err, ValidationError)
C21_TransportFails == Returned /\ svc = "Connection" /\ result.err = TransportError
C21_PayloadEmpty == Returned /\ svc = "Stationboard" /\ result.err = EmptyPayload /\ exchanges = 1
C21_ParseFails == Returned /\ svc = "Stationboard" /\ Len(out.r) > 0 /\ result.err # ""
C21_Succeeds == Returned /\ result.err = ""

-----------------------------------------------------------------------------
(* C22 *)

\* the list has an empty element
HasEmpty(list) == \E i \in 1..Len(list) : Len(list[i]) = 0

\* the options of the Connection searches made, and the ones a builder rejects
\* with a date: a zero date, an empty via or an empty transportation
ConnSearches ==
    { [ date |-> d, opts |-> o ] :
          d \in DateInputs,
          o \in ConnOptsInputs \cup { [ ZeroConnOpts EXCEPT !.Via = v ] : v \in ViaInputs } }
RejectedConnSearches ==
    { i \in ConnSearches :
          IsZero(i.date) \/ HasEmpty(i.opts.Via) \/ HasEmpty(i.opts.Transportations) }

\* the Stationboard searches made, and the ones a builder rejects: an empty name,
\* a zero date or an empty transportation
StbSearches ==
    { [ name |-> n, opts |-> [ Transportations |-> t, DateTime |-> d, Arrival |-> a,
                               Limit |-> l ] ] :
          n \in NameInputs, t \in TransportationInputs, d \in DateInputs, a \in BOOLEAN,
          l \in { 0, 15 } }
RejectedStbSearches ==
    { i \in StbSearches :
          Len(i.name) = 0 \/ IsZero(i.opts.DateTime) \/ HasEmpty(i.opts.Transportations) }

\* the step ends the search with an error and without a request
ReturnsErrorAtOnce ==
    /\ pc' = "done"
    /\ req' = Nil
    /\ result'.res = Nil
    /\ result'.err # ""
    /\ exchanges' = 0
    /\ pauses' = 0
    /\ last' = NoOutcome

\* C22: a step that starts a Connection search with a zero date or an empty via or
\* transportations element, a Stationboard search with an empty name, a zero date
\* or an empty transportation element, SearchWithType with an empty list, or a
\* query with an empty path, ends the search with an error and a nil result, and a
\* search that has no request has made no exchange and no pause until its caller
\* takes the error.
C22_RejectedInputMakesNoExchange ==
    [][ /\ (svc = "" /\ svc' # "") =>
              /\ \A i \in RejectedConnSearches :
                    ConnectionSearchWithOpts(Background, << "z" >>, << "a"," ","b" >>,
                                             i.date, i.opts) => ReturnsErrorAtOnce
              /\ \A i \in RejectedStbSearches :
                    StationboardSearchWithOpts(Background, i.name, i.opts)
                        => ReturnsErrorAtOnce
              /\ \A d \in DateInputs :
                    StationboardSearchWithType(Background, << "z" >>, d, << >>)
                        => ReturnsErrorAtOnce
              /\ \A s \in Services : Query(s, Background, << >>) => ReturnsErrorAtOnce
        /\ (svc' # "" /\ req' = Nil) =>
              /\ pc' = "done"
              /\ exchanges' = 0
              /\ pauses' = 0
              /\ result'.res = Nil
              /\ result'.err # ""
      ]_vars

\* a Stationboard search with a zero date has returned its error; no exchange was made
C22_Witness ==
    /\ svc = "Stationboard"
    /\ req = Nil
    /\ pc = "done"
    /\ exchanges = 0
    /\ result.res = Nil
    /\ result.err = "failed to build url path: " \o ZeroDate

\* the other rejections are reached
C22_ConnZeroDate == svc = "Connection" /\ req = Nil /\ result.err = "bad input parameter: " \o ZeroDate
C22_ConnEmptyVia == svc = "Connection" /\ req = Nil /\ result.err = "via filter at index 1 cannot be empty"
C22_ConnEmptyTransportation ==
    svc = "Connection" /\ req = Nil /\ result.err = "transportations filter at index 1 cannot be empty"
C22_StbEmptyName == svc = "Stationboard" /\ req = Nil /\ result.err = "no location name or id to search for"
C22_StbEmptyList ==
    /\ svc = "Stationboard"
    /\ req = Nil
    /\ result.err = "transportation filter is empty (use SearchWithDate() instead)"
C22_EmptyPath == svc = "Location" /\ req = Nil /\ result.err = "the request path can not be empty"

-----------------------------------------------------------------------------
(* C23 *)

\* the escaped form of each element handed to convListParam
Escaped(v) ==
    CASE v = << "a" >> -> << "a" >>
      [] v = << "a"," ","b" >> -> << "a","%","2","0","b" >>
      [] v = << "b","," >> -> << "b","%","2","C" >>

\* the pairs &name[]=<escaped value> of the elements from position i on, in order
RECURSIVE PairsFrom(_, _, _)
PairsFrom(values, name, i) ==
    IF i > Len(values) THEN << >>
    ELSE << "&" >> \o Chars(name) \o << "[","]","=" >> \o Escaped(values[i])
             \o PairsFrom(values, name, i + 1)

\* the index, counted from zero, of the first empty element
FirstEmpty(values) ==
    (CHOOSE i \in 1..Len(values) :
        Len(values[i]) = 0 /\ \A j \in 1..(i - 1) : Len(values[j]) # 0) - 1

\* C23: convListParam(values, name) returns, for a list without an empty element,
\* the pairs &name[]=<escaped value> of its elements in input order and no error
\* (the empty string for the empty list), and for a list with an empty element no
\* string and the error "<name> filter at index <i> cannot be empty", i the index
\* of the first empty element.
C23_ListParamIsPairsOrError ==
    convIn # Nil =>
        LET values == Deref(convIn).values
            name == Deref(convIn).name
        IN IF HasEmpty(values)
           THEN /\ convOut.s = << >>
                /\ convOut.err = name \o " filter at index " \o ToString(FirstEmpty(values))
                                   \o " cannot be empty"
           ELSE /\ convOut.err = ""
                /\ convOut.s = PairsFrom(values, name, 1)
                /\ Len(values) = 0 => convOut.s = << >>

\* a list whose second element is the first empty one was refused with index 1,
\* after its first element had been converted
C23_Witness ==
    /\ convIn # Nil
    /\ Deref(convIn).values = << << "a"," ","b" >>, << >>, << >> >>
    /\ Deref(convIn).name = "via"
    /\ convOut = [ s |-> << >>, err |-> "via filter at index 1 cannot be empty" ]

\* a list of three elements was converted
C23_Converted ==
    /\ convIn # Nil
    /\ Deref(convIn).values = << << "b","," >>, << "a" >>, << "a"," ","b" >> >>
    /\ convOut.err = ""
    /\ convOut.s = << "&","v","i","a","[","]","=" >> \o << "b","%","2","C" >> \o << "&","v","i","a","[","]","=" >> \o << "a" >>
                     \o << "&","v","i","a","[","]","=" >> \o << "a","%","2","0","b" >>

-----------------------------------------------------------------------------
(* C24 *)

\* the station sequence of a reply: the elements of its "stations" array, in order
Stations(raw) == Unmarshal("Location", raw).val.list

\* the id of a station of a reply
StationId(station) == Member(station, << "i","d" >>).v

\* the query of the request
RawQueryOf(r) == Deref(r).URL.RawQuery

\* C24: a step is a Location.Search(ctx, name) exactly when it is a
\* Location.SearchWithType(ctx, name, TypeAll), and its request asks for
\* query=<escaped name>&type=all; and every Location search that returns without
\* an error returns the station sequence of the bytes Do returned, whatever its
\* request was (for the reply with the stations 8 and 9: two stations, 8 first).
C24_LocationSearchesAgree ==
    [][ /\ (svc = "" /\ svc' = "Location") =>
              \A ctx \in CtxInputs, name \in NameInputs :
                  /\ LocationSearch(ctx, name) <=> LocationSearchWithType(ctx, name, TypeAll)
                  /\ LocationSearch(ctx, name) =>
                        /\ req' # Nil
                        /\ RawQueryOf(req') = << "q","u","e","r","y","=" >> \o PathEscape(name)
                                                \o Chars("&type=") \o Chars("all")
        /\ (svc' = "Location" /\ pc' = "done" /\ result' # NoQueryResult /\ result'.err = "") =>
              /\ result'.res # Nil
              /\ Deref(result'.res) = Stations(out'.r)
              /\ out'.r = TwoStations =>
                    /\ Len(Deref(result'.res)) = 2
                    /\ StationId(Deref(result'.res)[1]) = << "8" >>
                    /\ StationId(Deref(result'.res)[2]) = << "9" >>
      ]_vars

\* a search by coordinates has returned the two stations of the reply
C24_Witness ==
    /\ Returned
    /\ svc = "Location"
    /\ req # Nil
    /\ RawQueryOf(req) = << "x","=" >> \o formatF(47476001) \o Chars("&y=")
                           \o formatF(8306130)
    /\ out.r = TwoStations
    /\ result.err = ""
    /\ Len(Deref(result.res)) = 2

\* a search by name and a search by type have returned them as well
C24_ByName ==
    /\ Returned
    /\ svc = "Location"
    /\ req # Nil
    /\ RawQueryOf(req) = << "q","u","e","r","y","=","z" >> \o Chars("&type=") \o Chars("all")
    /\ result = [ res |-> Ptr(Stations(TwoStations)), err |-> "" ]
C24_ByType ==
    /\ Returned
    /\ svc = "Location"
    /\ req # Nil
    /\ RawQueryOf(req) = << "q","u","e","r","y","=","z" >> \o Chars("&type=") \o Chars("station")
    /\ result = [ res |-> Ptr(Stations(TwoStations)), err |-> "" ]

-----------------------------------------------------------------------------
(* C25 *)

\* the context a request built for the argument ctx carries
ContextFor(ctx) == IF ctx = Nil THEN Deref(Background) ELSE Deref(ctx)

\* C25: a step of Client.NewRequest(ctx, path) that returns a request returns one
\* with method GET, no body, the URL <base URL><path> and the caller's context
\* (context.Background() for nil) that passes validRequest; and Do never ends with
\* the error of its validation.
C25_NewRequestIsValid ==
    [][ /\ \A ctx \in CtxInputs, path \in SearchPathInputs :
              (NewRequest(ctx, path) /\ req' # Nil) =>
                  /\ ret' = ""
                  /\ Deref(req').Method = "GET"
                  /\ ~Deref(req').Body
                  /\ String(Deref(req').URL) = String(Deref(Cfg.apiUrl)) \o path
                  /\ Deref(req').ctx = ContextFor(ctx)
                  /\ validRequest(Deref(req')) = ""
        /\ (pc' = "done" /\ out'.err # "") => out'.err = TransportError
      ]_vars

\* the requests of the default client are as the claim says
C25_DefaultClientRequestIsValid ==
    [][ \A ctx \in CtxInputs, path \in SearchPathInputs :
            (NewRequest(ctx, path) /\ req' # Nil
               /\ Deref(Cfg.apiUrl).Host # << ":" >>) =>
                /\ ret' = ""
                /\ Deref(req').Method = "GET"
                /\ ~Deref(req').Body
                /\ String(Deref(req').URL) = String(Deref(Cfg.apiUrl)) \o path
                /\ Deref(req').ctx = ContextFor(ctx)
                /\ validRequest(Deref(req')) = ""
      ]_vars

\* Do has refused a request that Client.NewRequest returned without an error
C25_Refused ==
    /\ svc = ""
    /\ req # Nil
    /\ ret = ""
    /\ pc = "done"
    /\ exchanges = 0
    /\ out.err = ValidationError

-----------------------------------------------------------------------------
(* C26 *)

\* a call of Do has passed the validation of its request and has not returned
InCall == pc \in { "pause", "call", "f", "sleep", "ret" }

\* C26: a call of Do never makes more than maxRetry + 1 exchanges nor more than
\* maxRetry pauses, so never more than 11 exchanges, and, when every exchange and
\* every pause returns, a call that has started returns.
C26_DoTerminatesWithinBudget ==
    /\ [](pc # "idle" =>
            /\ exchanges <= Cfg.maxRetry + 1
            /\ pauses <= Cfg.maxRetry
            /\ exchanges <= RetryLimit + 1)
    /\ (InCall ~> pc = "done")

\* the longest call: the largest budget, every exchange failed
C26_Witness ==
    /\ pc = "done"
    /\ Cfg.maxRetry = RetryLimit
    /\ exchanges = RetryLimit
    /\ pauses = RetryLimit - 1
    /\ out.err = TransportError

-----------------------------------------------------------------------------
(* C27 *)

\* C27: an exchange is made only by retry's call of f, one at a time, and the
\* exchange after the first is made only after one more pause than before it; a
\* pause is made only after a failed exchange, lasts maxRetryPause seconds and is
\* followed by an exchange; so the pauses before an exchange are as many as the
\* exchanges made, the time slept is that many times maxRetryPause, and a call
\* that has returned has made one pause less than exchanges.
C27_AttemptsAlternateWithPauses ==
    [][ /\ exchanges' # exchanges =>
              \/ exchanges' = 0
              \/ /\ pc = "f"
                 /\ exchanges' = exchanges + 1
                 /\ pauses = exchanges
                 /\ pauses' = pauses
        /\ pauses' # pauses =>
              \/ pauses' = 0
              \/ /\ pc = "sleep"
                 /\ fres.err # ""
                 /\ pauses' = pauses + 1
                 /\ pauses' = exchanges
                 /\ exchanges' = exchanges
                 /\ slept' = slept + Cfg.maxRetryPause
                 /\ pc' = "f"
        /\ (pc' \in { "ret", "done" } /\ exchanges' > 0) => pauses' = exchanges' - 1
        /\ pc' \in { "f", "sleep", "ret", "done" } =>
              slept' = pauses' * Deref(client').cfg.maxRetryPause
      ]_vars

\* a call has returned after three exchanges and the two pauses between them
C27_Witness ==
    /\ pc = "done"
    /\ exchanges = 3
    /\ pauses = 2
    /\ Cfg.maxRetryPause > 0
    /\ slept = 2 * Cfg.maxRetryPause

-----------------------------------------------------------------------------
(* C28 *)

\* the outcome of an exchange is one retry treats as a failure
Retryable(o) == o.status = 0 \/ o.status >= StatusInternalServerError \/ o.readErr

C28_Returned200 ==
    /\ pc = "done"
    /\ Cfg.maxRetry = 0
    /\ exchanges = 1
    /\ last.status = StatusOK
    /\ Len(last.body) > 0
    /\ out = [ r |-> last.body, err |-> "", n |-> -1 ]

-----------------------------------------------------------------------------
(* C29 *)

\* the context of the request of the call is cancelled
CancelledCall == req # Nil /\ Deref(req).ctx # Deref(Background) /\ cancelledAt >= 0

\* the exchanges of a call with this policy when every one fails
Budget == IF Cfg.maxRetry < 1 THEN 1 ELSE Cfg.maxRetry

\* C29: in a call of Do whose context is cancelled, every exchange made after the
\* cancellation fails like a transport failure and is retried like one: the call
\* leaves retry only when its whole budget of exchanges is made, and returns with
\* all the pauses between them slept in full and the error "failed to perform the
\* http request after %d retries".
C29_CancelledCallSpendsItsBudget ==
    (CancelledCall /\ pc \in { "f", "sleep", "ret", "done" } /\ exchanges > cancelledAt) =>
        /\ last.status = 0
        /\ fres.err # ""
        /\ pc \in { "ret", "done" } =>
              /\ exchanges = Budget
              /\ pauses = Budget - 1
              /\ slept = pauses * Cfg.maxRetryPause
        /\ pc = "done" => out.r = << >> /\ out.err = TransportError

\* a call with a budget of seven, cancelled after its first exchange, has returned
\* after seven exchanges and six pauses
C29_Witness ==
    /\ CancelledCall
    /\ pc = "done"
    /\ Cfg.maxRetry = 7
    /\ cancelledAt = 1
    /\ exchanges = 7
    /\ pauses = 6
    /\ slept = 6 * Cfg.maxRetryPause
    /\ out.err = TransportError

-----------------------------------------------------------------------------
(* C30 *)

\* the pairs that have been the retry policy of the client: the one of its
\* construction and the ones of the MaxRetry calls that have completed
Policies == policies \cup { << DefaultMaxRetry, DefaultRetryPause >> }

\* C30: with MaxRetry running concurrently, a call of Do that has read its pause
\* and its attempt budget holds a pair that has been the policy of the client, and
\* a call that has returned the error of Do after every exchange failed has made
\* the exchanges of one such policy with the pause of the same policy.
C30_DoUsesOnePolicy ==
    /\ (pc = "f" /\ exchanges = 0) => << attempts, pause >> \in Policies
    /\ (pc = "done" /\ out.err = TransportError) =>
          \E q \in Policies :
              /\ exchanges = IF q[1] < 1 THEN 1 ELSE q[1]
              /\ pause = q[2]

\* a call of Do holds the attempt budget of the policy (1, 1) and the pause of
\* the policy of the construction
C30_MixedPolicy ==
    /\ pc = "f"
    /\ exchanges = 0
    /\ attempts = 1
    /\ pause = DefaultRetryPause

====
